---------------------------- MODULE Spec2Model ----------------------------
(***************************************************************************)
(* Model of the CSV ingestion pipeline of the procurement application     *)
(* (backend/apps/procurement/services.py) together with the storage       *)
(* schema it writes to (backend/apps/procurement/models.py).              *)
(*                                                                         *)
(* Text is modelled as a sequence of one-character strings so that        *)
(* trimming, prefixing and parsing are computed, not assumed; a message   *)
(* is the sequence of its characters.                                     *)
(***************************************************************************)
EXTENDS Integers, Sequences, FiniteSets, Bags, TLC

(***************************************************************************)
(* Bounds of the exploration.                                              *)
(***************************************************************************)
\* Number of CSVProcessor runs that may be in flight together.
NumRuns == 2
\* Longest ordinary file, in data rows.
MaxRows == 2
\* An upload that starts after another one draws its rows from the first
\* OverlapRows rows of Rows.
OverlapRows == 2
\* Longest text a function is called with on its own, the examples apart.
MaxLen == 3
\* Longest text a cell of an uploaded row is filled with, the examples apart.
CellLen == 2
\* The most rows in a file of two uploads that run side by side.
RaceRows == 1
\* The furthest read position a file is handed over at.
MaxPosition == 4
\* How many failing rows past the limit of the error log a file may hold.
Overflow == 2

(***************************************************************************)
(* Program constants.                                                      *)
(***************************************************************************)
FORMULA_CHARS == {"=", "+", "-", "@", "\t", "\r", "\n"}

MAX_ROWS_PER_UPLOAD == 50000

REQUIRED_COLUMNS == <<"supplier", "category", "amount", "date">>

\* self.errors[:100]
ERROR_LOG_LIMIT == 100

\* len(message) > 200 ; message[:200] + '...'
MESSAGE_LIMIT == 200

(***************************************************************************)
(* Text helpers (Python str methods used by the pipeline).                 *)
(***************************************************************************)
Whitespace == {" ", "\t", "\n", "\r"}

RECURSIVE lstrip(_)
lstrip(s) ==
    IF s # <<>> /\ Head(s) \in Whitespace THEN lstrip(Tail(s)) ELSE s

RECURSIVE rstrip(_)
rstrip(s) ==
    IF s # <<>> /\ s[Len(s)] \in Whitespace
       THEN rstrip(SubSeq(s, 1, Len(s) - 1))
       ELSE s

\* str.strip()
strip(s) == rstrip(lstrip(s))

\* str.replace(ch, '')
RECURSIVE remove(_, _)
remove(s, ch) ==
    IF s = <<>> THEN <<>>
    ELSE IF Head(s) = ch THEN remove(Tail(s), ch)
    ELSE <<Head(s)>> \o remove(Tail(s), ch)

\* str.lower(), one character
LowerChar(c) ==
    CASE c = "A" -> "a" [] c = "B" -> "b" [] c = "C" -> "c" [] c = "D" -> "d"
      [] c = "E" -> "e" [] c = "F" -> "f" [] c = "G" -> "g" [] c = "H" -> "h"
      [] c = "I" -> "i" [] c = "J" -> "j" [] c = "K" -> "k" [] c = "L" -> "l"
      [] c = "M" -> "m" [] c = "N" -> "n" [] c = "O" -> "o" [] c = "P" -> "p"
      [] c = "Q" -> "q" [] c = "R" -> "r" [] c = "S" -> "s" [] c = "T" -> "t"
      [] c = "U" -> "u" [] c = "V" -> "v" [] c = "W" -> "w" [] c = "X" -> "x"
      [] c = "Y" -> "y" [] c = "Z" -> "z"
      [] OTHER -> c

lower(s) == [i \in 1..Len(s) |-> LowerChar(s[i])]

\* A missing cell of the dataframe (pandas NaN) and str(NaN).
NaN == <<"NaN">>
notna(cell) == cell # NaN
str(cell) == IF cell = NaN THEN <<"n", "a", "n">> ELSE cell

(***************************************************************************)
(* sanitize_csv_value                                                      *)
(***************************************************************************)
\* A sanitizer that does not trim what it is given.
sanitize_csv_value_untrimmed(value) ==
    IF value # <<>> /\ Head(value) \in FORMULA_CHARS
       THEN <<"'">> \o value
       ELSE value

\* A sanitizer that takes the quote it puts in front for a formula
\* character too.
sanitize_csv_value_quote(value) ==
    IF value = <<>> THEN value
    ELSE LET v == strip(value)
         IN  IF v # <<>> /\ Head(v) \in FORMULA_CHARS \cup {"'"}
                THEN <<"'">> \o v
                ELSE v

\* A sanitizer that trims and puts nothing in front.
sanitize_csv_value_bare(value) ==
    IF value = <<>> THEN value ELSE strip(value)

sanitize_csv_value(value) ==
    IF value = <<>> THEN value
    ELSE LET v == strip(value)
         IN  IF v # <<>> /\ Head(v) \in FORMULA_CHARS
                THEN <<"'">> \o v
                ELSE v

(***************************************************************************)
(* Decimal(amount_str): exact decimals as digit sequences (the ceiling    *)
(* does not fit a machine integer of the checker).                        *)
(***************************************************************************)
Digits == {"0", "1", "2", "3", "4", "5", "6", "7", "8", "9"}

DigitVal(c) ==
    CASE c = "0" -> 0 [] c = "1" -> 1 [] c = "2" -> 2 [] c = "3" -> 3
      [] c = "4" -> 4 [] c = "5" -> 5 [] c = "6" -> 6 [] c = "7" -> 7
      [] c = "8" -> 8 [] c = "9" -> 9

RECURSIVE StripLeadingZeros(_)
StripLeadingZeros(s) ==
    IF s # <<>> /\ Head(s) = "0" THEN StripLeadingZeros(Tail(s)) ELSE s

RECURSIVE StripTrailingZeros(_)
StripTrailingZeros(s) ==
    IF s # <<>> /\ s[Len(s)] = "0"
       THEN StripTrailingZeros(SubSeq(s, 1, Len(s) - 1))
       ELSE s

\* Position of the first "." of s, or 0.
DotAt(s) ==
    IF \E i \in 1..Len(s) : s[i] = "."
       THEN CHOOSE i \in 1..Len(s) :
                s[i] = "." /\ \A j \in 1..(i - 1) : s[j] # "."
       ELSE 0

\* Decimal(s) for the plain notation [sign] digits [. digits]: the value as
\* [ok, neg, int, frac] with int free of leading and frac of trailing zeros;
\* ok = FALSE stands for decimal.InvalidOperation.
Decimal(s) ==
    LET signed == s # <<>> /\ Head(s) \in {"+", "-"}
        body   == IF signed THEN Tail(s) ELSE s
        dot    == DotAt(body)
        ip     == IF dot = 0 THEN body ELSE SubSeq(body, 1, dot - 1)
        fp     == IF dot = 0 THEN <<>> ELSE SubSeq(body, dot + 1, Len(body))
        wellFormed ==
            /\ \A i \in 1..Len(ip) : ip[i] \in Digits
            /\ \A i \in 1..Len(fp) : fp[i] \in Digits
            /\ Len(ip) + Len(fp) > 0
        int    == StripLeadingZeros(ip)
        frac   == StripTrailingZeros(fp)
    IN  IF wellFormed
           THEN [ok |-> TRUE,
                 neg |-> signed /\ Head(s) = "-" /\ (int # <<>> \/ frac # <<>>),
                 int |-> int, frac |-> frac]
           ELSE [ok |-> FALSE, neg |-> FALSE, int |-> <<>>, frac |-> <<>>]

\* Decimal('999999999999.99')
AMOUNT_CEILING ==
    [ok |-> TRUE, neg |-> FALSE,
     int |-> <<"9", "9", "9", "9", "9", "9", "9", "9", "9", "9", "9", "9">>,
     frac |-> <<"9", "9">>]

\* a < b for digit sequences of equal length (lexicographic).
RECURSIVE DigitsLess(_, _)
DigitsLess(a, b) ==
    IF a = <<>> \/ b = <<>> THEN FALSE
    ELSE IF DigitVal(Head(a)) # DigitVal(Head(b))
            THEN DigitVal(Head(a)) < DigitVal(Head(b))
            ELSE DigitsLess(Tail(a), Tail(b))

PadRight(s, n) == s \o [i \in 1..(n - Len(s)) |-> "0"]

\* x > y for non-negative decimals.
DecimalGreater(x, y) ==
    IF Len(x.int) # Len(y.int) THEN Len(x.int) > Len(y.int)
    ELSE IF x.int # y.int THEN DigitsLess(y.int, x.int)
    ELSE LET n == IF Len(x.frac) > Len(y.frac) THEN Len(x.frac) ELSE Len(y.frac)
         IN  DigitsLess(PadRight(y.frac, n), PadRight(x.frac, n))

\* The value held by DecimalField(max_digits=15, decimal_places=2) for a
\* decimal of at most two fractional digits: "int.ff".
StoredAmount(d) ==
    (IF d.int = <<>> THEN <<"0">> ELSE d.int) \o <<".">> \o PadRight(d.frac, 2)

(***************************************************************************)
(* pd.to_datetime(cell).date() on the date texts of the model: two        *)
(* notations of the same day parse to the same date, anything else does   *)
(* not parse.                                                              *)
(***************************************************************************)
DATE_ISO == <<"2", "0", "2", "4", "-", "0", "1", "-", "0", "5">>
DATE_US  == <<"0", "1", "/", "0", "5", "/", "2", "0", "2", "4">>
DATE_ISO2 == <<"2", "0", "2", "4", "-", "0", "2", "-", "0", "9">>

to_datetime(cell) ==
    CASE cell = DATE_ISO  -> [ok |-> TRUE, date |-> "2024-01-05"]
      [] cell = DATE_US   -> [ok |-> TRUE, date |-> "2024-01-05"]
      [] cell = DATE_ISO2 -> [ok |-> TRUE, date |-> "2024-02-09"]
      [] OTHER            -> [ok |-> FALSE, date |-> "NaT"]

(***************************************************************************)
(* The message texts of the source, character by character.               *)
(***************************************************************************)
\* "File must have .csv extension"
MSG_EXTENSION ==
    <<"F", "i", "l", "e", " ", "m", "u", "s", "t", " ", "h", "a", "v", "e",
      " ", ".", "c", "s", "v", " ", "e", "x", "t", "e", "n", "s", "i", "o",
      "n">>

\* "File size must be less than 50MB"
MSG_SIZE ==
    <<"F", "i", "l", "e", " ", "s", "i", "z", "e", " ", "m", "u", "s", "t",
      " ", "b", "e", " ", "l", "e", "s", "s", " ", "t", "h", "a", "n", " ",
      "5", "0", "M", "B">>

\* "File appears to be binary, not CSV"
MSG_BINARY ==
    <<"F", "i", "l", "e", " ", "a", "p", "p", "e", "a", "r", "s", " ", "t",
      "o", " ", "b", "e", " ", "b", "i", "n", "a", "r", "y", ",", " ", "n",
      "o", "t", " ", "C", "S", "V">>

\* "File encoding not recognized"
MSG_ENCODING ==
    <<"F", "i", "l", "e", " ", "e", "n", "c", "o", "d", "i", "n", "g", " ",
      "n", "o", "t", " ", "r", "e", "c", "o", "g", "n", "i", "z", "e", "d">>

\* "Could not validate file format"
MSG_VALIDATE ==
    <<"C", "o", "u", "l", "d", " ", "n", "o", "t", " ", "v", "a", "l", "i",
      "d", "a", "t", "e", " ", "f", "i", "l", "e", " ", "f", "o", "r", "m",
      "a", "t">>

\* "Invalid file: "
MSG_INVALID_FILE ==
    <<"I", "n", "v", "a", "l", "i", "d", " ", "f", "i", "l", "e", ":", " ">>

\* "File contains "
MSG_FILE_CONTAINS ==
    <<"F", "i", "l", "e", " ", "c", "o", "n", "t", "a", "i", "n", "s", " ">>

\* " rows, maximum allowed is "
MSG_ROWS_MAXIMUM ==
    <<" ", "r", "o", "w", "s", ",", " ", "m", "a", "x", "i", "m", "u", "m",
      " ", "a", "l", "l", "o", "w", "e", "d", " ", "i", "s", " ">>

\* "Missing required columns: "
MSG_MISSING_COLUMNS ==
    <<"M", "i", "s", "s", "i", "n", "g", " ", "r", "e", "q", "u", "i", "r",
      "e", "d", " ", "c", "o", "l", "u", "m", "n", "s", ":", " ">>

\* "An error occurred while processing this row."
MSG_GENERIC ==
    <<"A", "n", " ", "e", "r", "r", "o", "r", " ", "o", "c", "c", "u", "r",
      "r", "e", "d", " ", "w", "h", "i", "l", "e", " ", "p", "r", "o", "c",
      "e", "s", "s", "i", "n", "g", " ", "t", "h", "i", "s", " ", "r", "o",
      "w", ".">>

\* "Row "
MSG_ROW ==
    <<"R", "o", "w", " ">>

\* ": Organization '"
MSG_ORGANIZATION ==
    <<":", " ", "O", "r", "g", "a", "n", "i", "z", "a", "t", "i", "o", "n",
      " ", "'">>

\* "' not found. Valid organizations: "
MSG_NOT_FOUND ==
    <<"'", " ", "n", "o", "t", " ", "f", "o", "u", "n", "d", ".", " ", "V",
      "a", "l", "i", "d", " ", "o", "r", "g", "a", "n", "i", "z", "a", "t",
      "i", "o", "n", "s", ":", " ">>

\* "Supplier name is required"
MSG_SUPPLIER_REQUIRED ==
    <<"S", "u", "p", "p", "l", "i", "e", "r", " ", "n", "a", "m", "e", " ",
      "i", "s", " ", "r", "e", "q", "u", "i", "r", "e", "d">>

\* "Category name is required"
MSG_CATEGORY_REQUIRED ==
    <<"C", "a", "t", "e", "g", "o", "r", "y", " ", "n", "a", "m", "e", " ",
      "i", "s", " ", "r", "e", "q", "u", "i", "r", "e", "d">>

\* "Invalid date format: "
MSG_INVALID_DATE ==
    <<"I", "n", "v", "a", "l", "i", "d", " ", "d", "a", "t", "e", " ", "f",
      "o", "r", "m", "a", "t", ":", " ">>

\* "Invalid amount value: "
MSG_INVALID_AMOUNT ==
    <<"I", "n", "v", "a", "l", "i", "d", " ", "a", "m", "o", "u", "n", "t",
      " ", "v", "a", "l", "u", "e", ":", " ">>

\* "Duplicate transaction detected"
MSG_DUPLICATE ==
    <<"D", "u", "p", "l", "i", "c", "a", "t", "e", " ", "t", "r", "a", "n",
      "s", "a", "c", "t", "i", "o", "n", " ", "d", "e", "t", "e", "c", "t",
      "e", "d">>

\* "No columns to parse from file"
MSG_EMPTY_DATA ==
    <<"N", "o", " ", "c", "o", "l", "u", "m", "n", "s", " ", "t", "o", " ",
      "p", "a", "r", "s", "e", " ", "f", "r", "o", "m", " ", "f", "i", "l",
      "e">>

\* "'utf-8' codec can't decode byte 0xe9 in position 0: invalid continuation byte"
MSG_UNICODE ==
    <<"'", "u", "t", "f", "-", "8", "'", " ", "c", "o", "d", "e", "c", " ",
      "c", "a", "n", "'", "t", " ", "d", "e", "c", "o", "d", "e", " ", "b",
      "y", "t", "e", " ", "0", "x", "e", "9", " ", "i", "n", " ", "p", "o",
      "s", "i", "t", "i", "o", "n", " ", "0", ":", " ", "i", "n", "v", "a",
      "l", "i", "d", " ", "c", "o", "n", "t", "i", "n", "u", "a", "t", "i",
      "o", "n", " ", "b", "y", "t", "e">>

\* str(n) for a natural number
RECURSIVE IntStr(_)
IntStr(n) ==
    LET d == <<"0", "1", "2", "3", "4", "5", "6", "7", "8", "9">>
    IN  IF n < 10 THEN <<d[n + 1]>> ELSE IntStr(n \div 10) \o <<d[(n % 10) + 1]>>

\* pattern in text
Contains(text, pattern) ==
    \E i \in 1..(Len(text) - Len(pattern) + 1) :
        SubSeq(text, i, i + Len(pattern) - 1) = pattern

\* text.endswith(suffix)
endswith(text, suffix) ==
    /\ Len(text) >= Len(suffix)
    /\ SubSeq(text, Len(text) - Len(suffix) + 1, Len(text)) = suffix

\* ', '.join(parts)
RECURSIVE join(_)
join(parts) ==
    IF parts = <<>> THEN <<>>
    ELSE IF Len(parts) = 1 THEN parts[1]
    ELSE parts[1] \o <<",", " ">> \o join(Tail(parts))

(***************************************************************************)
(* CSVProcessor._sanitize_error_message / _sanitize_error_log              *)
(***************************************************************************)
sensitive_patterns ==
    { <<"D", "E", "T", "A", "I", "L", ":">>,
      <<"S", "Q", "L">>,
      <<"p", "s", "y", "c", "o", "p", "g", "2">>,
      <<"p", "o", "s", "t", "g", "r", "e", "s", "q", "l">>,
      <<"/", "a", "p", "p", "/">>,
      <<"/", "h", "o", "m", "e", "/">>,
      <<"T", "r", "a", "c", "e", "b", "a", "c", "k">>,
      <<"F", "i", "l", "e", " ", "\"">> }

\* A sanitizer that passes every message on as it is.
_sanitize_error_message_raw(message) == message

_sanitize_error_message(message) ==
    LET message_lower == lower(message)
    IN  IF \E pattern \in sensitive_patterns :
               Contains(message_lower, lower(pattern))
           THEN MSG_GENERIC
           ELSE IF Len(message) > MESSAGE_LIMIT
                   THEN SubSeq(message, 1, MESSAGE_LIMIT) \o <<".", ".", ".">>
                   ELSE message

\* A log that keeps every entry.
_sanitize_error_log_all(errors) ==
    [i \in 1..Len(errors) |->
        [row |-> errors[i].row,
         error |-> _sanitize_error_message(errors[i].error)]]

\* An entry of self.errors is [row, error]; the log keeps the first
\* ERROR_LOG_LIMIT of them, each message sanitized.
_sanitize_error_log(errors) ==
    LET n == IF Len(errors) < ERROR_LOG_LIMIT THEN Len(errors) ELSE ERROR_LOG_LIMIT
    IN  [i \in 1..n |->
            [row |-> errors[i].row,
             error |-> _sanitize_error_message(errors[i].error)]]

(***************************************************************************)
(* The Organization table (read-only for the pipeline), in the order of   *)
(* Meta.ordering = ['name'].                                               *)
(***************************************************************************)
Organizations ==
    << [id |-> 1, name |-> <<"A", "b">>, slug |-> <<"a", "b">>, is_active |-> TRUE],
       [id |-> 2, name |-> <<"C", "d">>, slug |-> <<"c", "d">>, is_active |-> TRUE],
       [id |-> 3, name |-> <<"E", "f">>, slug |-> <<"e", "f">>, is_active |-> FALSE] >>

OrgIds == 1..Len(Organizations)

\* The users that upload: a manager of organization 1 and a superuser whose
\* profile is in organization 2 (request.user.profile.organization,
\* request.user.is_superuser).
Users ==
    { [id |-> 1, organization |-> 1, is_superuser |-> FALSE],
      [id |-> 2, organization |-> 2, is_superuser |-> TRUE] }

(***************************************************************************)
(* The texts functions are called with and cells are filled with: every   *)
(* text of a few characters over the characters the code tells apart      *)
(* (formula characters, white space, the quote, the characters of an      *)
(* amount, a letter), and the examples of the documentation.              *)
(***************************************************************************)
Alphabet ==
    {"=", "+", "-", "@", "\t", "\r", "\n", " ", "'", "a",
     "0", "5", "9", ".", "$", ","}

TEXT_SUM ==
    <<"=", "S", "U", "M", "(", "A", "1", ":", "A", "9", ")">>
TEXT_ACME ==
    <<"A", "c", "m", "e", " ", "C", "o", "r", "p">>
TEXT_PRICE ==
    <<"$", "1", ",", "2", "3", "4", ".", "5", "6">>
TEXT_OVER ==
    <<"1", "0", "0", "0", "0", "0", "0", "0", "0", "0", "0", "0", "0">>
TEXT_CEILING ==
    <<"9", "9", "9", "9", "9", "9", "9", "9", "9", "9", "9", "9", ".", "9",
      "9">>
TEXT_PAST_CEILING ==
    <<"$", "9", "9", "9", ",", "9", "9", "9", ",", "9", "9", "9", ",", "9",
      "9", "9", ".", "9", "9", "1">>

Examples ==
    {TEXT_SUM, TEXT_ACME, TEXT_PRICE, TEXT_OVER, TEXT_CEILING, TEXT_PAST_CEILING}

TextsUpTo(n) == UNION { [1..k -> Alphabet] : k \in 0..n } \cup Examples

(***************************************************************************)
(* The rows files are made of.  A row is the record of its cells; a cell  *)
(* is its text, or NaN where the file has nothing.                         *)
(***************************************************************************)
Row(organization, supplier, category, amount, date, invoice_number) ==
    [organization |-> organization, supplier |-> supplier, category |-> category,
     amount |-> amount, date |-> date, invoice_number |-> invoice_number,
     description |-> NaN, subcategory |-> NaN, location |-> NaN,
     fiscal_year |-> NaN, spend_band |-> NaN, payment_method |-> NaN]

\* A cell longer than a message may be.
LongCell == [i \in 1..(MESSAGE_LIMIT + 1) |-> "x"]

Rows ==
    << \* 1: a valid row
       Row(NaN, <<"a">>, <<"c">>, <<"5">>, DATE_ISO, NaN),
       \* 2: the same transaction written differently
       Row(NaN, <<" ", "a">>, <<"c">>, <<"$", "5", ".", "0", "0">>, DATE_US, NaN),
       \* 3: an unparseable date, for a supplier not seen before
       Row(NaN, <<"b">>, <<"c">>, <<"5">>, <<"x">>, NaN),
       \* 4: a negative amount
       Row(NaN, <<"a">>, <<"c">>, <<"-", "5">>, DATE_ISO, NaN),
       \* 5: a blank supplier
       Row(NaN, <<" ">>, <<"c">>, <<"5">>, DATE_ISO, NaN),
       \* 6: another organization named in the row, and a formula as supplier
       Row(<<"C", "D">>, <<"=", "a">>, <<"c">>, <<"5">>, DATE_ISO2, <<"7">>),
       \* 7: an organization that does not exist
       Row(<<"z", "z">>, <<"a">>, <<"c">>, <<"5">>, DATE_ISO, NaN),
       \* 8: the first organization named by its slug
       Row(<<"a", "b">>, <<"a">>, <<"c">>, <<"5">>, DATE_ISO, NaN),
       \* 9: an organization that is not active
       Row(<<"E", "F">>, <<"a">>, <<"c">>, <<"5">>, DATE_ISO, NaN),
       \* 10: a date cell that reads like a storage diagnostic
       Row(NaN, <<"a">>, <<"c">>, <<"5">>, <<"S", "q", "l">>, NaN),
       \* 11: a date cell that holds a path
       Row(NaN, <<"a">>, <<"c">>, <<"5">>, <<"/", "h", "o", "m", "e", "/">>, NaN),
       \* 12: a very long date cell
       Row(NaN, <<"a">>, <<"c">>, <<"5">>, LongCell, NaN),
       \* 13: the supplier and category of row 1 with an unparseable date
       Row(NaN, <<"a">>, <<"c">>, <<"5">>, <<"x">>, NaN) >>

RowIds == 1..Len(Rows)

(***************************************************************************)
(* Uploaded files.  A file is [name, size, nul, readable, encoding,       *)
(* columns, rows, nrows]: nul says whether the first 1024 bytes hold a    *)
(* null byte, encoding is "utf-8" or "latin-1" (bytes that are no valid   *)
(* UTF-8), and the parsed dataframe has nrows rows, row i (from 0) being  *)
(* rows[(i % Len(rows)) + 1], so that a long file is held compactly.      *)
(* CsvFile takes the numbers its rows have in Rows.                        *)
(***************************************************************************)
\* first_bytes.decode(codec): latin-1 maps every byte, so it never fails.
decodes(file, codec) ==
    IF codec = "latin-1" THEN TRUE ELSE file.encoding = codec

\* A validation that looks at the extension only.
validate_csv_file_extension(file) ==
    IF ~endswith(lower(file.name), <<".", "c", "s", "v">>)
       THEN [is_valid |-> FALSE, error_msg |-> MSG_EXTENSION]
       ELSE [is_valid |-> TRUE, error_msg |-> <<>>]

validate_csv_file(file) ==
    IF ~endswith(lower(file.name), <<".", "c", "s", "v">>)
       THEN [is_valid |-> FALSE, error_msg |-> MSG_EXTENSION]
    ELSE IF file.size > 50 * 1024 * 1024
       THEN [is_valid |-> FALSE, error_msg |-> MSG_SIZE]
    ELSE IF ~file.readable
       THEN [is_valid |-> FALSE, error_msg |-> MSG_VALIDATE]
    ELSE IF file.nul
       THEN [is_valid |-> FALSE, error_msg |-> MSG_BINARY]
    ELSE IF ~decodes(file, "utf-8") /\ ~decodes(file, "latin-1")
       THEN [is_valid |-> FALSE, error_msg |-> MSG_ENCODING]
    ELSE [is_valid |-> TRUE, error_msg |-> <<>>]

\* pd.read_csv(self.file): the dataframe, or the exception's text.
read_csv(file) ==
    IF file.encoding # "utf-8"
       THEN [ok |-> FALSE, error |-> MSG_UNICODE]
    ELSE IF file.columns = {}
       THEN [ok |-> FALSE, error |-> MSG_EMPTY_DATA]
    ELSE [ok |-> TRUE, error |-> <<>>]

\* len(df) and df.iloc[index]
len(file) == file.nrows
iloc(file, index) == file.rows[(index % Len(file.rows)) + 1]

\* A check that looks for the first required column only.
_validate_columns_first(file) ==
    SelectSeq(SubSeq(REQUIRED_COLUMNS, 1, 1), LAMBDA col : col \notin file.columns)

\* CSVProcessor._validate_columns: the missing required columns, in order.
_validate_columns(file) ==
    SelectSeq(REQUIRED_COLUMNS, LAMBDA col : col \notin file.columns)

\* The characters of a required column's name.
ColumnText(col) ==
    CASE col = "supplier" -> <<"s", "u", "p", "p", "l", "i", "e", "r">>
      [] col = "category" -> <<"c", "a", "t", "e", "g", "o", "r", "y">>
      [] col = "amount"   -> <<"a", "m", "o", "u", "n", "t">>
      [] col = "date"     -> <<"d", "a", "t", "e">>

(***************************************************************************)
(* The files of the exploration.                                           *)
(***************************************************************************)
OPTIONAL_COLUMNS ==
    {"description", "subcategory", "location", "fiscal_year",
     "spend_band", "payment_method", "invoice_number", "organization"}

AllColumns == {REQUIRED_COLUMNS[i] : i \in 1..Len(REQUIRED_COLUMNS)} \cup OPTIONAL_COLUMNS

CsvFile(rows) ==
    [name |-> <<"d", ".", "c", "s", "v">>, size |-> 1024, nul |-> FALSE,
     readable |-> TRUE, encoding |-> "utf-8", columns |-> AllColumns,
     rows |-> [i \in 1..Len(rows) |-> Rows[rows[i]]], nrows |-> Len(rows)]

\* The rows ordinary files are made of.
OrdinaryRows == 1..7

\* Every well-formed file of at most MaxRows rows.
OrdinaryFiles ==
    { CsvFile(rows) : rows \in UNION { [1..n -> OrdinaryRows] : n \in 0..MaxRows } }

\* Files that differ from a one-row well-formed file in one respect.
SpecialFiles ==
    LET base == CsvFile(<<1>>)
    IN  { [base EXCEPT !.name = <<"d", ".", "x", "l", "s">>],
          [base EXCEPT !.name = <<"D", ".", "C", "S", "V">>],
          [base EXCEPT !.size = 50 * 1024 * 1024],
          [base EXCEPT !.size = 50 * 1024 * 1024 + 1],
          [base EXCEPT !.nul = TRUE],
          [base EXCEPT !.readable = FALSE],
          [base EXCEPT !.encoding = "latin-1"],
          [base EXCEPT !.columns = {}, !.rows = <<>>, !.nrows = 0],
          [base EXCEPT !.columns = AllColumns \ {"category"}],
          [base EXCEPT !.columns = AllColumns \ {"category", "date"}],
          [base EXCEPT !.columns = AllColumns \ OPTIONAL_COLUMNS],
          [base EXCEPT !.nrows = MAX_ROWS_PER_UPLOAD + 1],
          [base EXCEPT !.nrows = 60000, !.columns = AllColumns \ {"category"}] }

\* Files at the row limit and above it.
LimitFiles ==
    LET base == CsvFile(<<1>>)
    IN  { [base EXCEPT !.nrows = MAX_ROWS_PER_UPLOAD],
          [base EXCEPT !.nrows = MAX_ROWS_PER_UPLOAD + 1],
          [base EXCEPT !.nrows = 60000, !.columns = AllColumns \ {"category"}] }

\* The files of the three-row scenario: one row already stored by an
\* earlier upload (row 1), one valid row not seen before (row 6) and one
\* row with an unparseable date (row 3), in every order, and the file of
\* the earlier upload.
ScenarioFiles ==
    { CsvFile(<<1>>) } \cup
    { CsvFile(rows) : rows \in { f \in [1..3 -> {1, 3, 6}] :
                                   {f[i] : i \in 1..3} = {1, 3, 6} } }

\* Three-row files whose rows name no organization, an active one by name
\* or by slug, an inactive one or an unknown one.
OrganizationFiles ==
    { CsvFile(rows) : rows \in [1..3 -> {1, 6, 7, 8, 9}] }

\* Files with about as many failing rows as the error log keeps, alone or
\* between valid rows; files whose rows fail with a message that holds a
\* sensitive pattern or is too long; and the files that are refused.
LogFiles ==
    SpecialFiles \cup
    { [CsvFile(<<3>>) EXCEPT !.nrows = ERROR_LOG_LIMIT + k] : k \in 0..Overflow } \cup
    { [CsvFile(<<1, 3>>) EXCEPT !.nrows = 2 * (ERROR_LOG_LIMIT + Overflow)] } \cup
    { CsvFile(rows) : rows \in {<<10>>, <<11>>, <<12>>, <<3, 12, 1, 10>>} }

\* The columns whose cells are filled with every text.
CellFields ==
    {"supplier", "category", "amount", "description", "subcategory",
     "location", "fiscal_year", "spend_band", "payment_method", "invoice_number"}

\* One-row files: the valid row with one cell holding any text, or nothing
\* (a cell of a parsed file is never the empty text: it is NaN).
CellFiles ==
    { [CsvFile(<<1>>) EXCEPT !.rows = <<[Rows[1] EXCEPT ![field] = text]>>] :
        field \in CellFields, text \in (TextsUpTo(CellLen) \ {<<>>}) \cup {NaN} }

\* Files of uploads that run side by side: rows for the same supplier and
\* category, valid (1), failing after the dimensions were written (13), and
\* naming the first organization (8).
RaceFiles ==
    { CsvFile(rows) : rows \in UNION { [1..n -> {1, 8, 13}] : n \in 1..RaceRows } }

\* Files that end in each way process() can end: rejected, aborted,
\* completed, partial and failed.
LifecycleFiles ==
    SpecialFiles \cup
    { CsvFile(rows) : rows \in {<<>>, <<1>>, <<3>>, <<1, 3>>, <<3, 1>>} }

\* The file object a processor holds.
Open(fd) == fd

(***************************************************************************)
(* Storage.  db holds the Supplier and Category tables (sets of           *)
(* [organization, name]: unique_together) and the Transaction table (a    *)
(* bag: Transaction.Meta declares indexes and no uniqueness).             *)
(***************************************************************************)
\* The field sets Transaction.Meta declares unique: none.
TransactionUniqueTogether == {}

\* Whether inserting txn raises IntegrityError.
IntegrityError(db, txn) ==
    \E fields \in TransactionUniqueTogether :
        \E t \in BagToSet(db.Transaction) :
            \A f \in fields : t[f] = txn[f]

\* A lookup by name alone: of the rows with the name, the one of the first
\* organization.
get_by_name(table, organization, name) ==
    CHOOSE d \in table :
        /\ d.name = name
        /\ \A e \in table : e.name = name => d.organization <= e.organization

\* The object get_or_create(organization=organization, name=name) returns:
\* the row of the table with that organization and that name.
get(table, organization, name) ==
    CHOOSE d \in table : d.organization = organization /\ d.name = name

\* Supplier.objects.get_or_create / Category.objects.get_or_create
get_or_create(table, organization, name) ==
    table \cup {[organization |-> organization, name |-> name]}

\* Transaction.objects.create
create(db, txn) ==
    [db EXCEPT !.Transaction = @ (+) SetToBag({txn})]

(***************************************************************************)
(* CSVProcessor                                                            *)
(***************************************************************************)
\* __init__; the batch id is a fresh random token, here the run's number.
CSVProcessor(organization, user, file, skip_duplicates, allow_multi_org, token) ==
    [default_organization |-> organization,
     user            |-> user,
     file            |-> file,
     skip_duplicates |-> skip_duplicates,
     allow_multi_org |-> allow_multi_org,
     batch_id        |-> token,
     errors          |-> <<>>,
     stats           |-> [total |-> 0, successful |-> 0, failed |-> 0, duplicates |-> 0],
     orgs_affected   |-> {},
     org_cache       |-> <<>>]

\* The first ten active organization names, joined.
ValidOrganizations ==
    LET active == SelectSeq(Organizations, LAMBDA o : o.is_active)
        n      == IF Len(active) < 10 THEN Len(active) ELSE 10
        valid_orgs == [i \in 1..n |-> active[i].name]
    IN  join(valid_orgs) \o (IF n = 10 THEN <<",", " ", ".", ".", ".">> ELSE <<>>)

\* A lookup that falls back on the default organization when the name is
\* not found.
_resolve_organization_default(self, org_identifier, row_index) ==
    LET ident == strip(org_identifier)
        found == {i \in OrgIds :
                    /\ Organizations[i].is_active
                    /\ \/ lower(Organizations[i].name) = lower(ident)
                       \/ lower(Organizations[i].slug) = lower(ident)}
    IN  [ok |-> TRUE,
         org |-> IF found = {} THEN self.default_organization
                 ELSE CHOOSE i \in found : \A j \in found : i <= j,
         cache |-> self.org_cache, error |-> <<>>]

\* _resolve_organization: [ok, org, cache, error]
_resolve_organization(self, org_identifier, row_index) ==
    IF org_identifier = <<>>
       THEN [ok |-> TRUE, org |-> self.default_organization,
             cache |-> self.org_cache, error |-> <<>>]
    ELSE
    LET ident == strip(org_identifier)
        found == {i \in OrgIds :
                    /\ Organizations[i].is_active
                    /\ \/ lower(Organizations[i].name) = lower(ident)
                       \/ lower(Organizations[i].slug) = lower(ident)}
    IN  IF ident \in DOMAIN self.org_cache
           THEN [ok |-> TRUE, org |-> self.org_cache[ident],
                 cache |-> self.org_cache, error |-> <<>>]
        ELSE IF found = {}
           THEN [ok |-> FALSE, org |-> 0, cache |-> self.org_cache,
                 error |-> MSG_ROW \o IntStr(row_index + 2) \o MSG_ORGANIZATION
                           \o ident \o MSG_NOT_FOUND \o ValidOrganizations]
        ELSE LET org == CHOOSE i \in found : \A j \in found : i <= j
             IN  [ok |-> TRUE, org |-> org,
                  cache |-> (ident :> org) @@ self.org_cache, error |-> <<>>]

\* None, the value of a nullable field that was not given.
None == <<"None">>

\* repr(text): in single quotes, or in double quotes when the text holds a
\* single quote and no double one; control characters, the backslash and
\* the enclosing quote are escaped.
RECURSIVE Escaped(_, _)
Escaped(text, quote) ==
    IF text = <<>> THEN <<>>
    ELSE (CASE Head(text) = "\t" -> <<"\\", "t">>
            [] Head(text) = "\n" -> <<"\\", "n">>
            [] Head(text) = "\r" -> <<"\\", "r">>
            [] Head(text) = "\\" -> <<"\\", "\\">>
            [] Head(text) = quote -> <<"\\", quote>>
            [] OTHER -> <<Head(text)>>) \o Escaped(Tail(text), quote)

repr(text) ==
    LET chars == {text[i] : i \in 1..Len(text)}
        quote == IF "'" \in chars /\ "\"" \notin chars THEN "\"" ELSE "'"
    IN  <<quote>> \o Escaped(text, quote) \o <<quote>>

\* "Field 'fiscal_year' expected a number but got "
MSG_FIELD_EXPECTED ==
    <<"F", "i", "e", "l", "d", " ", "'", "f", "i", "s", "c", "a", "l", "_",
      "y", "e", "a", "r", "'", " ", "e", "x", "p", "e", "c", "t", "e", "d",
      " ", "a", " ", "n", "u", "m", "b", "e", "r", " ", "b", "u", "t", " ",
      "g", "o", "t", " ">>

\* IntegerField.get_prep_value, int(value) of a text: [ok, value, error];
\* an optional sign and digits, blanks around them allowed.
get_prep_value(value) ==
    LET text   == strip(value)
        signed == text # <<>> /\ Head(text) \in {"+", "-"}
        body   == IF signed THEN Tail(text) ELSE text
        digits == StripLeadingZeros(body)
    IN  IF value = None THEN [ok |-> TRUE, value |-> None, error |-> <<>>]
        ELSE IF body # <<>> /\ \A i \in 1..Len(body) : body[i] \in Digits
           THEN [ok |-> TRUE,
                 value |-> IF digits = <<>> THEN <<"0">>
                           ELSE IF signed /\ Head(text) = "-" THEN <<"-">> \o digits
                           ELSE digits,
                 error |-> <<>>]
           ELSE [ok |-> FALSE, value |-> None,
                 error |-> MSG_FIELD_EXPECTED \o repr(value) \o <<".">>]

\* An amount check that knows no ceiling.
ParseAmountUnbounded(cell) ==
    LET amount_str == strip(remove(remove(str(cell), ","), "$"))
        amount     == Decimal(amount_str)
    IN  IF ~amount.ok THEN [ok |-> FALSE, amount |-> <<>>]
        ELSE IF amount.neg THEN [ok |-> FALSE, amount |-> <<>>]
        ELSE [ok |-> TRUE, amount |-> StoredAmount(amount)]

\* The amount of a row: [ok, amount]
ParseAmount(cell) ==
    LET amount_str == strip(remove(remove(str(cell), ","), "$"))
        amount     == Decimal(amount_str)
    IN  IF ~amount.ok THEN [ok |-> FALSE, amount |-> <<>>]
        ELSE IF amount.neg THEN [ok |-> FALSE, amount |-> <<>>]
        ELSE IF DecimalGreater(amount, AMOUNT_CEILING) THEN [ok |-> FALSE, amount |-> <<>>]
        ELSE [ok |-> TRUE, amount |-> StoredAmount(amount)]

\* A processor that reads the organization column for every caller.
RowOrganizationForAll(self, row, index) ==
    IF /\ "organization" \in Open(self.file).columns
       /\ notna(row.organization)
       THEN _resolve_organization(self, str(row.organization), index)
       ELSE [ok |-> TRUE, org |-> self.default_organization,
             cache |-> self.org_cache, error |-> <<>>]

\* The organization a row is stored under: [ok, org, cache, error]
RowOrganization(self, row, index) ==
    IF /\ self.allow_multi_org
       /\ "organization" \in Open(self.file).columns
       /\ notna(row.organization)
       THEN _resolve_organization(self, str(row.organization), index)
       ELSE [ok |-> TRUE, org |-> self.default_organization,
             cache |-> self.org_cache, error |-> <<>>]

\* A row whose writes are not undone when it fails after them.
_process_row_unatomic(self, db, row, index) ==
    LET resolved == RowOrganization(self, row, index)
        organization == resolved.org
        affected == IF resolved.ok
                       THEN self.orgs_affected \cup {Organizations[organization].name}
                       ELSE self.orgs_affected
        supplier_name == sanitize_csv_value(strip(str(row.supplier)))
        category_name == sanitize_csv_value(strip(str(row.category)))
        date     == to_datetime(row.date)
        parsed   == ParseAmount(row.amount)
        invoice_number ==
            IF "invoice_number" \in Open(self.file).columns /\ notna(row.invoice_number)
               THEN sanitize_csv_value(strip(str(row.invoice_number)))
               ELSE <<>>
        \* optional_data[col], or the field's default
        Optional(col, default) ==
            IF col \in Open(self.file).columns /\ notna(row[col])
               THEN sanitize_csv_value(strip(str(row[col])))
               ELSE default
        fiscal_year == get_prep_value(Optional("fiscal_year", None))
        db1 == [db  EXCEPT !.Supplier = get_or_create(@, organization, supplier_name)]
        db2 == [db1 EXCEPT !.Category = get_or_create(@, organization, category_name)]
        txn == [organization   |-> organization,
                uploaded_by    |-> self.user,
                supplier       |-> get(db1.Supplier, organization, supplier_name),
                category       |-> get(db2.Category, organization, category_name),
                amount         |-> parsed.amount,
                date           |-> date.date,
                upload_batch   |-> self.batch_id,
                invoice_number |-> invoice_number,
                description    |-> Optional("description", <<>>),
                subcategory    |-> Optional("subcategory", <<>>),
                location       |-> Optional("location", <<>>),
                fiscal_year    |-> fiscal_year.value,
                spend_band     |-> Optional("spend_band", <<>>),
                payment_method |-> Optional("payment_method", <<>>)]
        Raise(message) ==
            [outcome |-> "error", error |-> message, db |-> db,
             org_cache |-> resolved.cache, orgs_affected |-> affected]
        Leave(message) ==
            [outcome |-> "error", error |-> message, db |-> db2,
             org_cache |-> resolved.cache, orgs_affected |-> affected]
    IN  IF ~resolved.ok THEN Raise(resolved.error)
        ELSE IF supplier_name = <<>> \/ supplier_name = <<"'">>
           THEN Raise(MSG_SUPPLIER_REQUIRED)
        ELSE IF category_name = <<>> \/ category_name = <<"'">>
           THEN Raise(MSG_CATEGORY_REQUIRED)
        ELSE IF ~date.ok THEN Leave(MSG_INVALID_DATE \o str(row.date))
        ELSE IF ~parsed.ok THEN Leave(MSG_INVALID_AMOUNT \o str(row.amount))
        ELSE IF ~fiscal_year.ok THEN Leave(fiscal_year.error)
        ELSE IF IntegrityError(db2, txn)
           THEN IF self.skip_duplicates
                   THEN [outcome |-> "duplicate", error |-> <<>>, db |-> db,
                         org_cache |-> resolved.cache, orgs_affected |-> affected]
                   ELSE Raise(MSG_DUPLICATE)
        ELSE [outcome |-> "created", error |-> <<>>, db |-> create(db2, txn),
              org_cache |-> resolved.cache, orgs_affected |-> affected]

\* _process_row, run inside transaction.atomic: the outcome is "created",
\* "duplicate" (the conflict was swallowed) or "error" (an exception left
\* the function); db is the table state after commit or rollback, and the
\* processor's own fields (cache, orgs_affected) keep what was written.
_process_row(self, db, row, index) ==
    LET resolved == RowOrganization(self, row, index)
        organization == resolved.org
        affected == IF resolved.ok
                       THEN self.orgs_affected \cup {Organizations[organization].name}
                       ELSE self.orgs_affected
        supplier_name == sanitize_csv_value(strip(str(row.supplier)))
        category_name == sanitize_csv_value(strip(str(row.category)))
        date     == to_datetime(row.date)
        parsed   == ParseAmount(row.amount)
        invoice_number ==
            IF "invoice_number" \in Open(self.file).columns /\ notna(row.invoice_number)
               THEN sanitize_csv_value(strip(str(row.invoice_number)))
               ELSE <<>>
        \* optional_data[col], or the field's default
        Optional(col, default) ==
            IF col \in Open(self.file).columns /\ notna(row[col])
               THEN sanitize_csv_value(strip(str(row[col])))
               ELSE default
        fiscal_year == get_prep_value(Optional("fiscal_year", None))
        db1 == [db  EXCEPT !.Supplier = get_or_create(@, organization, supplier_name)]
        db2 == [db1 EXCEPT !.Category = get_or_create(@, organization, category_name)]
        txn == [organization   |-> organization,
                uploaded_by    |-> self.user,
                supplier       |-> get(db1.Supplier, organization, supplier_name),
                category       |-> get(db2.Category, organization, category_name),
                amount         |-> parsed.amount,
                date           |-> date.date,
                upload_batch   |-> self.batch_id,
                invoice_number |-> invoice_number,
                description    |-> Optional("description", <<>>),
                subcategory    |-> Optional("subcategory", <<>>),
                location       |-> Optional("location", <<>>),
                fiscal_year    |-> fiscal_year.value,
                spend_band     |-> Optional("spend_band", <<>>),
                payment_method |-> Optional("payment_method", <<>>)]
        Raise(message) ==
            [outcome |-> "error", error |-> message, db |-> db,
             org_cache |-> resolved.cache, orgs_affected |-> affected]
    IN  IF ~resolved.ok THEN Raise(resolved.error)
        ELSE IF supplier_name = <<>> \/ supplier_name = <<"'">>
           THEN Raise(MSG_SUPPLIER_REQUIRED)
        ELSE IF category_name = <<>> \/ category_name = <<"'">>
           THEN Raise(MSG_CATEGORY_REQUIRED)
        ELSE IF ~date.ok THEN Raise(MSG_INVALID_DATE \o str(row.date))
        ELSE IF ~parsed.ok THEN Raise(MSG_INVALID_AMOUNT \o str(row.amount))
        ELSE IF ~fiscal_year.ok THEN Raise(fiscal_year.error)
        ELSE IF IntegrityError(db2, txn)
           THEN IF self.skip_duplicates
                   THEN [outcome |-> "duplicate", error |-> <<>>, db |-> db,
                         org_cache |-> resolved.cache, orgs_affected |-> affected]
                   ELSE Raise(MSG_DUPLICATE)
        ELSE [outcome |-> "created", error |-> <<>>, db |-> create(db2, txn),
              org_cache |-> resolved.cache, orgs_affected |-> affected]

\* A loop that forgets to count the rows that raise.
RowStepUncounted(self, result, index) ==
    [self EXCEPT
        !.stats = IF result.outcome = "created"
                     THEN [@ EXCEPT !.successful = @ + 1] ELSE @,
        !.errors = IF result.outcome = "error"
                      THEN Append(@, [row |-> index + 2, error |-> result.error])
                      ELSE @,
        !.org_cache = result.org_cache,
        !.orgs_affected = result.orgs_affected]

\* A loop that counts the row as successful before its outcome is known
\* and takes that back when the row fails.
RowStepSpeculative(self, result, index) ==
    [self EXCEPT
        !.stats = CASE result.outcome = "created" ->
                         [@ EXCEPT !.successful = @ + 1]
                    [] result.outcome = "duplicate" ->
                         [@ EXCEPT !.duplicates = @ + 1]
                    [] result.outcome = "error" ->
                         [@ EXCEPT !.failed = @ + 1, !.successful = @ - 1],
        !.errors = IF result.outcome = "error"
                      THEN Append(@, [row |-> index + 2, error |-> result.error])
                      ELSE @,
        !.org_cache = result.org_cache,
        !.orgs_affected = result.orgs_affected]

\* One iteration of the loop of _process_rows: the processor after the row.
RowStep(self, result, index) ==
    LET stats == self.stats
        after ==
            CASE result.outcome = "created" ->
                   [stats EXCEPT !.successful = @ + 1]
              [] result.outcome = "duplicate" ->
                   \* duplicates += 1; successful -= 1; then the caller's += 1
                   [stats EXCEPT !.duplicates = @ + 1,
                                 !.successful = (@ - 1) + 1]
              [] result.outcome = "error" ->
                   [stats EXCEPT !.failed = @ + 1]
    IN  [self EXCEPT
            !.stats = after,
            !.errors = IF result.outcome = "error"
                          THEN Append(@, [row |-> index + 2, error |-> result.error])
                          ELSE @,
            !.org_cache = result.org_cache,
            !.orgs_affected = result.orgs_affected]

\* A status rule that takes "no row failed twice" for "some row succeeded".
FinalStatusLax(stats) ==
    IF stats.failed = 0 THEN "completed"
    ELSE IF stats.successful >= 0 THEN "partial"
    ELSE "failed"

\* The status process() gives a batch whose rows were all consumed.
FinalStatus(stats) ==
    IF stats.failed = 0 THEN "completed"
    ELSE IF stats.successful > 0 THEN "partial"
    ELSE "failed"

(***************************************************************************)
(* State.                                                                  *)
(***************************************************************************)
Runs == 1..NumRuns

VARIABLES
    pc,            \* where each run is: idle, created, rows, returned, raised
    processor,     \* the CSVProcessor of each run
    index,         \* the row the loop of _process_rows is at
    db,            \* Supplier, Category and Transaction tables
    data_uploads,  \* the DataUpload table, by batch_id
    raised,        \* the text of the ValueError process() raised, if any
    began_after,   \* the runs that had ended when each run began
    corpus,        \* which files users may upload (see FilesOf)
    sessions,      \* the runs that may start
    argument,      \* the text a function is called with on its own
    returned,      \* what the calls made with it returned, by call
    txn,           \* the database transaction each run's row is in
    audit_log      \* the AuditLog table, in the order of creation

vars == <<pc, processor, index, db, data_uploads, raised, began_after,
          corpus, sessions, argument, returned, txn, audit_log>>

EmptyDb == [Supplier |-> {}, Category |-> {}, Transaction |-> EmptyBag]

NoProcessor == CSVProcessor(0, 0, 0, FALSE, FALSE, 0)

\* No row transaction open.  at is where the row is (none, supplier,
\* supplier_insert, category, category_insert, rest), writes are the
\* dimension rows inserted and not yet committed, inserted those inserted
\* and committed, conflicts the inserts that met a committed row.
NoTransaction == [at |-> "none", writes |-> {}, inserted |-> {}, conflicts |-> {}]

InitPipeline(files, runs) ==
    /\ pc = [r \in Runs |-> "idle"]
    /\ processor = [r \in Runs |-> NoProcessor]
    /\ index = [r \in Runs |-> 0]
    /\ db = EmptyDb
    /\ data_uploads = <<>>
    /\ raised = [r \in Runs |-> <<>>]
    /\ began_after = [r \in Runs |-> {}]
    /\ corpus = files
    /\ sessions = runs
    /\ txn = [r \in Runs |-> NoTransaction]
    /\ audit_log = <<>>

InitWith(files, runs) ==
    /\ InitPipeline(files, runs)
    /\ argument = <<>>
    /\ returned = <<>>

\* No upload; a text to call the functions with.
InitCalls ==
    /\ InitPipeline("files", {})
    /\ argument \in TextsUpTo(MaxLen)
    /\ returned = <<>>

\* The files of a corpus.
\* The well-formed files made of the first k rows of Rows.
OverlapFiles(k) ==
    { CsvFile(rows) : rows \in UNION { [1..n -> 1..k] : n \in 0..MaxRows } }

FilesOf(name) ==
    CASE name = "files"     -> OrdinaryFiles \cup SpecialFiles
      [] name = "lifecycle" -> LifecycleFiles
      [] name = "limit"     -> LimitFiles
      [] name = "overlap"   -> OverlapFiles(OverlapRows)
      [] name = "scenario"  -> ScenarioFiles
      [] name = "organizations" -> OrganizationFiles
      [] name = "log"       -> LogFiles
      [] name = "cells"     -> CellFiles
      [] name = "race"      -> RaceFiles

\* The corpus run r uploads from: the first run draws from the corpus of
\* the exploration, a later one from the overlapping files (or from the
\* same scenario).
CorpusOf(name, r) ==
    IF r = 1 \/ name \in {"scenario", "race"} THEN name ELSE "overlap"

Init == InitWith("files", Runs)

\* One upload of a file at or above the row limit.
InitLimit == InitWith("limit", {1})

\* One upload of a file whose rows name organizations.
InitOrganizations == InitWith("organizations", {1})

\* One upload of a file with many or with telling failures.
InitLog == InitWith("log", {1})

\* One upload of a row with any text in one cell.
InitCells == InitWith("cells", {1})

\* Uploads that run side by side, their rows taken statement by statement.
InitRace == InitWith("race", Runs)

\* Uploads of the three-row scenario.
InitScenario == InitWith("scenario", Runs)

(***************************************************************************)
(* Operations.                                                             *)
(***************************************************************************)
\* A record created under a token of its own instead of the processor's.
NewDataUploadOwnToken(self) ==
    [organization    |-> self.default_organization,
     uploaded_by     |-> self.user,
     batch_id        |-> self.batch_id + NumRuns,
     total_rows      |-> 0,
     successful_rows |-> 0,
     failed_rows     |-> 0,
     duplicate_rows  |-> 0,
     status          |-> "processing",
     error_log       |-> <<>>,
     completed_at    |-> "null"]

\* DataUpload.objects.create(..., status='processing')
NewDataUpload(self) ==
    [organization    |-> self.default_organization,
     uploaded_by     |-> self.user,
     batch_id        |-> self.batch_id,
     total_rows      |-> 0,
     successful_rows |-> 0,
     failed_rows     |-> 0,
     duplicate_rows  |-> 0,
     status          |-> "processing",
     error_log       |-> <<>>,
     completed_at    |-> "null"]

\* An except branch that logs the error and forgets the status.
AbortUnmarked(upload, e) ==
    [upload EXCEPT !.error_log = <<[error |-> _sanitize_error_message(e)]>>]

\* The except branch of process(): the record is marked failed and the
\* sanitized text is raised.
Abort(upload, e) ==
    [upload EXCEPT !.status = "failed",
                   !.error_log = <<[error |-> _sanitize_error_message(e)]>>,
                   !.completed_at = "now"]

\* TransactionViewSet.upload_csv builds the processor for the request's user
\* and calls process(), which validates the file and creates the DataUpload.
upload_csv(r) ==
    /\ pc[r] = "idle"
    /\ r \in sessions
    /\ \A q \in Runs : q < r => pc[q] # "idle"
    /\ \E user \in Users, skip_duplicates \in BOOLEAN,
          file \in FilesOf(CorpusOf(corpus, r)) :
         LET self == CSVProcessor(user.organization, user.id, file,
                                  skip_duplicates, user.is_superuser, r)
             checked == validate_csv_file(Open(file))
         IN  /\ processor' = [processor EXCEPT ![r] = self]
             /\ began_after' = [began_after EXCEPT ![r] =
                                  {q \in Runs : pc[q] \in {"returned", "raised"}}]
             /\ IF ~checked.is_valid
                   THEN /\ raised' = [raised EXCEPT ![r] = MSG_INVALID_FILE \o checked.error_msg]
                        /\ pc' = [pc EXCEPT ![r] = "raised"]
                        /\ UNCHANGED data_uploads
                   ELSE /\ data_uploads' = (r :> NewDataUpload(self)) @@ data_uploads
                        /\ pc' = [pc EXCEPT ![r] = "created"]
                        /\ UNCHANGED raised
    /\ UNCHANGED <<index, db, corpus, sessions, argument, returned, txn,
                   audit_log>>

\* A limit that a file of exactly MAX_ROWS_PER_UPLOAD rows exceeds.
ExceedsRowLimitInclusive(n) == n >= MAX_ROWS_PER_UPLOAD

\* len(df) > MAX_ROWS_PER_UPLOAD
ExceedsRowLimit(n) == n > MAX_ROWS_PER_UPLOAD

\* process(): read the file, check the row limit and the columns.
process_read(r) ==
    /\ pc[r] = "created"
    /\ LET self == processor[r]
           file == Open(self.file)
           df   == read_csv(file)
           total == IF df.ok THEN len(file) ELSE self.stats.total
           missing == _validate_columns(file)
           e == IF ~df.ok THEN df.error
                ELSE IF ExceedsRowLimit(len(file))
                   THEN MSG_FILE_CONTAINS \o IntStr(len(file))
                        \o MSG_ROWS_MAXIMUM \o IntStr(MAX_ROWS_PER_UPLOAD)
                ELSE IF missing # <<>>
                   THEN MSG_MISSING_COLUMNS
                        \o join([i \in 1..Len(missing) |-> ColumnText(missing[i])])
                ELSE <<>>
       IN  /\ processor' = [processor EXCEPT ![r].stats.total = total]
           /\ IF e # <<>>
                 THEN /\ data_uploads' = [data_uploads EXCEPT ![r] = Abort(@, e)]
                      /\ raised' = [raised EXCEPT ![r] = _sanitize_error_message(e)]
                      /\ pc' = [pc EXCEPT ![r] = "raised"]
                 ELSE /\ pc' = [pc EXCEPT ![r] = "rows"]
                      /\ UNCHANGED <<data_uploads, raised>>
    /\ UNCHANGED <<index, db, began_after, corpus, sessions, argument, returned,
                   txn, audit_log>>

\* A loop that a failing row breaks out of.
AfterRowBreak(self, index_, result) ==
    IF result.outcome = "error" THEN len(Open(self.file)) ELSE index_ + 1

\* The loop of _process_rows goes on to the next row whatever the row's
\* outcome was (the try/except is inside the loop).
AfterRow(self, index_, result) == index_ + 1

\* One iteration of _process_rows: the row is processed in its own
\* transaction and counted.
_process_rows(r) ==
    /\ pc[r] = "rows"
    /\ index[r] < len(Open(processor[r].file))
    /\ LET self   == processor[r]
           row    == iloc(Open(self.file), index[r])
           result == _process_row(self, db, row, index[r])
       IN  /\ db' = result.db
           /\ processor' = [processor EXCEPT ![r] = RowStep(self, result, index[r])]
           /\ index' = [index EXCEPT ![r] = AfterRow(self, @, result)]
    /\ UNCHANGED <<pc, data_uploads, raised, began_after, corpus, sessions,
                   argument, returned, txn, audit_log>>

\* process() after the loop: the counters, the log and the status are saved
\* and the record is returned.
process_finish(r) ==
    /\ pc[r] = "rows"
    /\ index[r] = len(Open(processor[r].file))
    /\ LET self == processor[r]
       IN  data_uploads' =
             [data_uploads EXCEPT ![r] =
                [@ EXCEPT !.total_rows      = self.stats.total,
                          !.successful_rows = self.stats.successful,
                          !.failed_rows     = self.stats.failed,
                          !.duplicate_rows  = self.stats.duplicates,
                          !.error_log       = _sanitize_error_log(self.errors),
                          !.completed_at    = "now",
                          !.status          = FinalStatus(self.stats)]]
    /\ pc' = [pc EXCEPT ![r] = "returned"]
    /\ UNCHANGED <<processor, index, db, raised, began_after, corpus, sessions,
                   argument, returned, txn, audit_log>>

\* What a call made on its own leaves alone.
pipeline == <<pc, processor, index, db, data_uploads, raised, began_after,
              corpus, sessions, txn, audit_log>>

\* sanitize_csv_value(value) as _process_row calls it on a cell's text
call_sanitize_csv_value ==
    /\ "sanitize_csv_value" \notin DOMAIN returned
    /\ returned' = ("sanitize_csv_value" :> sanitize_csv_value(argument)) @@ returned
    /\ UNCHANGED <<pipeline, argument>>

\* The lambda export_transactions_to_csv applies to a string cell.
ExportCell(x) == IF notna(x) THEN sanitize_csv_value(str(x)) ELSE <<>>

\* The cell is exported: what was stored is sanitized again.
call_export ==
    /\ "sanitize_csv_value" \in DOMAIN returned
    /\ "export" \notin DOMAIN returned
    /\ returned' = ("export" :> ExportCell(returned["sanitize_csv_value"])) @@ returned
    /\ UNCHANGED <<pipeline, argument>>

NextCalls == call_sanitize_csv_value \/ call_export

\* The columns export_transactions_to_csv sanitizes.
string_columns ==
    {"Supplier", "Category", "Description", "Subcategory", "Location",
     "Spend Band", "Payment Method", "Invoice Number"}

\* A row of the exported dataframe, by column name.
ExportRow(t) ==
    [col \in string_columns \cup {"Amount", "Date", "Fiscal Year"} |->
        CASE col = "Supplier"       -> ExportCell(t.supplier.name)
          [] col = "Category"       -> ExportCell(t.category.name)
          [] col = "Amount"         -> t.amount
          [] col = "Date"           -> t.date
          [] col = "Description"    -> ExportCell(t.description)
          [] col = "Subcategory"    -> ExportCell(t.subcategory)
          [] col = "Location"       -> ExportCell(t.location)
          [] col = "Fiscal Year"    -> IF t.fiscal_year = None THEN NaN
                                       ELSE t.fiscal_year
          [] col = "Spend Band"     -> ExportCell(t.spend_band)
          [] col = "Payment Method" -> ExportCell(t.payment_method)
          [] col = "Invoice Number" -> ExportCell(t.invoice_number)]

\* export_transactions_to_csv(organization) without filters: the rows of
\* the organization's transactions with their string cells sanitized.  A
\* dataframe made of no rows has no columns, and naming its columns raises.
export_transactions_to_csv(organization) ==
    /\ "export_transactions_to_csv" \notin DOMAIN returned
    /\ LET stored   == db.Transaction
           queryset == {t \in BagToSet(stored) : t.organization = organization}
           data     == [t \in queryset |-> stored[t]]
           result   == IF queryset = {}
                          THEN [raised |-> TRUE, df |-> EmptyBag]
                          ELSE [raised |-> FALSE, df |-> BagOfAll(ExportRow, data)]
       IN  returned' = ("export_transactions_to_csv" :> result) @@ returned
    /\ UNCHANGED <<pipeline, argument>>


\* The functions called on their own.
SpecCalls == InitCalls /\ [][NextCalls]_vars

(***************************************************************************)
(* authentication/permissions.py.  request.user is [is_none,               *)
(* is_authenticated, has_profile, profile]: is_none stands for request.user *)
(* = None, has_profile for hasattr(request.user, 'profile'), and profile   *)
(* is [role, organization, is_active].  An object is [has_organization,    *)
(* organization, has_user, user_has_profile, user_organization], with      *)
(* organization 0 for None.  A call returns [raised, value]: value is the  *)
(* truth of what the method returned.                                      *)
(***************************************************************************)
\* UserProfile.ROLE_CHOICES, and a role that is none of them.
Roles == {"admin", "manager", "viewer", "other"}

NoProfile == [role |-> "viewer", organization |-> 0, is_active |-> FALSE]

RequestUsers ==
    { [is_none |-> TRUE, is_authenticated |-> FALSE, has_profile |-> FALSE,
       profile |-> NoProfile],
      [is_none |-> FALSE, is_authenticated |-> FALSE, has_profile |-> FALSE,
       profile |-> NoProfile],
      [is_none |-> FALSE, is_authenticated |-> TRUE, has_profile |-> FALSE,
       profile |-> NoProfile] } \cup
    { [is_none |-> FALSE, is_authenticated |-> TRUE, has_profile |-> TRUE,
       profile |-> [role |-> role, organization |-> organization,
                    is_active |-> is_active]] :
        role \in Roles, organization \in {1, 2}, is_active \in BOOLEAN }

Objects ==
    { [has_organization |-> has_organization,
       organization |-> IF has_organization THEN organization ELSE 0,
       has_user |-> has_user,
       user_has_profile |-> has_user /\ user_organization # 0,
       user_organization |-> IF has_user THEN user_organization ELSE 0] :
        has_organization \in BOOLEAN, organization \in 0..2,
        has_user \in BOOLEAN, user_organization \in 0..2 }

\* UserProfile.is_admin, is_manager, can_upload_data, can_delete_data
is_admin(self) == self.role = "admin"
is_manager(self) == self.role \in {"admin", "manager"}
can_upload_data(self) == self.role \in {"admin", "manager"}
can_delete_data(self) == self.role = "admin"

Returned(value) == [raised |-> FALSE, value |-> value]
AttributeError == [raised |-> TRUE, value |-> FALSE]

\* The part the four has_permission methods share:
\* request.user and request.user.is_authenticated and hasattr(..., 'profile')
HasProfile(user) ==
    /\ ~user.is_none
    /\ user.is_authenticated
    /\ user.has_profile

\* IsAdmin.has_permission
IsAdmin(user) == Returned(HasProfile(user) /\ is_admin(user.profile))

\* IsManager.has_permission
IsManager(user) == Returned(HasProfile(user) /\ is_manager(user.profile))

\* CanUploadData.has_permission
CanUploadData(user) == Returned(HasProfile(user) /\ can_upload_data(user.profile))

\* A delete permission that managers pass too.
CanDeleteDataManagers(user) ==
    Returned(HasProfile(user) /\ is_manager(user.profile))

\* CanDeleteData.has_permission
CanDeleteData(user) == Returned(HasProfile(user) /\ can_delete_data(user.profile))

\* An object check that looks at the object's user before its organization.
IsSameOrganizationUserFirst(user, obj) ==
    IF user.is_none THEN AttributeError
    ELSE IF ~user.is_authenticated THEN Returned(FALSE)
    ELSE IF ~user.has_profile THEN Returned(FALSE)
    ELSE IF obj.has_user /\ obj.user_has_profile
       THEN Returned(obj.user_organization = user.profile.organization)
    ELSE IF obj.has_organization
       THEN Returned(obj.organization = user.profile.organization)
    ELSE Returned(FALSE)

\* IsSameOrganization.has_object_permission; request.user.is_authenticated
\* of None raises AttributeError.
IsSameOrganization(user, obj) ==
    IF user.is_none THEN AttributeError
    ELSE IF ~user.is_authenticated THEN Returned(FALSE)
    ELSE IF ~user.has_profile THEN Returned(FALSE)
    ELSE IF obj.has_organization
       THEN Returned(obj.organization = user.profile.organization)
    ELSE IF obj.has_user /\ obj.user_has_profile
       THEN Returned(obj.user_organization = user.profile.organization)
    ELSE Returned(FALSE)

\* No upload; a request and an object to ask the permissions about.
InitPermissions ==
    /\ InitPipeline("files", {})
    /\ argument \in [user : RequestUsers, obj : Objects]
    /\ returned = <<>>

call_IsAdmin ==
    /\ "IsAdmin" \notin DOMAIN returned
    /\ returned' = ("IsAdmin" :> IsAdmin(argument.user)) @@ returned
    /\ UNCHANGED <<pipeline, argument>>

call_IsManager ==
    /\ "IsManager" \notin DOMAIN returned
    /\ returned' = ("IsManager" :> IsManager(argument.user)) @@ returned
    /\ UNCHANGED <<pipeline, argument>>

call_CanUploadData ==
    /\ "CanUploadData" \notin DOMAIN returned
    /\ returned' = ("CanUploadData" :> CanUploadData(argument.user)) @@ returned
    /\ UNCHANGED <<pipeline, argument>>

call_CanDeleteData ==
    /\ "CanDeleteData" \notin DOMAIN returned
    /\ returned' = ("CanDeleteData" :> CanDeleteData(argument.user)) @@ returned
    /\ UNCHANGED <<pipeline, argument>>

call_IsSameOrganization ==
    /\ "IsSameOrganization" \notin DOMAIN returned
    /\ returned' = ("IsSameOrganization" :>
                      IsSameOrganization(argument.user, argument.obj)) @@ returned
    /\ UNCHANGED <<pipeline, argument>>

NextPermissions ==
    \/ call_IsAdmin
    \/ call_IsManager
    \/ call_CanUploadData
    \/ call_CanDeleteData
    \/ call_IsSameOrganization

\* The permission classes asked about a request.
SpecPermissions == InitPermissions /\ [][NextPermissions]_vars

\* The read of the first bytes without the seek back: the file stays
\* behind what was read.
tell_unrewound(file, position) ==
    IF ~endswith(lower(file.name), <<".", "c", "s", "v">>) \/ file.size > 50 * 1024 * 1024
       THEN {position}
    ELSE IF ~file.readable
       THEN {position, 0}
    ELSE {IF file.size < 1024 THEN file.size ELSE 1024}

\* file.tell() after validate_csv_file(file) was called with the file at
\* position: untouched when the extension or the size is rejected, which
\* is before any seek; at 0 after seek(0), read(1024), seek(0); and, when
\* the file cannot be read, untouched if the first seek raised and at 0
\* if the read did.
tell(file, position) ==
    IF ~endswith(lower(file.name), <<".", "c", "s", "v">>) \/ file.size > 50 * 1024 * 1024
       THEN {position}
    ELSE IF ~file.readable
       THEN {position, 0}
    ELSE {0}

\* The files validate_csv_file is called with on its own.
ValidatedFiles == SpecialFiles \cup {CsvFile(<<1>>)}

\* No upload; a file at some read position to validate.
InitValidate ==
    /\ InitPipeline("files", {})
    /\ argument \in [file : ValidatedFiles, position : 0..MaxPosition]
    /\ returned = <<>>

call_validate_csv_file ==
    /\ "validate_csv_file" \notin DOMAIN returned
    /\ \E position \in tell(argument.file, argument.position) :
          returned' = ("validate_csv_file" :>
                         [value |-> validate_csv_file(argument.file),
                          file  |-> argument.file,
                          tell  |-> position]) @@ returned
    /\ UNCHANGED <<pipeline, argument>>

NextValidate == call_validate_csv_file

\* validate_csv_file called on a file at any read position.
SpecValidate == InitValidate /\ [][NextValidate]_vars

Next ==
    \E r \in Runs :
        \/ upload_csv(r)
        \/ process_read(r)
        \/ _process_rows(r)
        \/ process_finish(r)

Spec == Init /\ [][Next]_vars

\* Uploads and exports.
NextCells ==
    \/ Next
    \/ \E organization \in OrgIds : export_transactions_to_csv(organization)

\* One upload of a row with any text in one cell, and an export.
SpecCells == InitCells /\ [][NextCells]_vars

\* The same program on the files around the row limit.
SpecLimit == InitLimit /\ [][Next]_vars

\* The same program on the files whose rows name organizations.
SpecOrganizations == InitOrganizations /\ [][Next]_vars

\* The same program on the files with many or with telling failures.
SpecLog == InitLog /\ [][Next]_vars

\* The same program on the files of the three-row scenario.
SpecScenario == InitScenario /\ [][Next]_vars

\* process() is straight-line code: a call that has created its record and
\* has not ended takes its next step, which moves it to another place or to
\* the next row.  These are the steps process_read, _process_rows and
\* process_finish take for run r, described by what they do to pc and index.
Running(r) ==
    /\ pc[r] \in {"created", "rows"}
    /\ \E place \in {"created", "rows", "returned", "raised"},
          row \in {index[r], index[r] + 1} :
         /\ place # pc[r] \/ row # index[r]
         /\ pc' = [pc EXCEPT ![r] = place]
         /\ index' = [index EXCEPT ![r] = row]

InitLifecycle == InitWith("lifecycle", Runs)

LiveSpec ==
    InitLifecycle /\ [][Next]_vars /\ \A r \in Runs : WF_<<pc, index>>(Running(r))

(***************************************************************************)
(* _process_row statement by statement, each row in its own database       *)
(* transaction (transaction.atomic), for uploads that run side by side.    *)
(* A transaction reads what is committed and what it wrote itself.         *)
(***************************************************************************)
\* The row get_or_create asks for: [table, organization, name].
Dimension(self, row, i, table) ==
    [table |-> table,
     organization |-> RowOrganization(self, row, i).org,
     name |-> sanitize_csv_value(strip(str(IF table = "Supplier" THEN row.supplier
                                                                  ELSE row.category)))]

\* The committed rows of the two dimension tables.
CommittedRows ==
    { [table |-> "Supplier", organization |-> d.organization, name |-> d.name] :
        d \in db.Supplier } \cup
    { [table |-> "Category", organization |-> d.organization, name |-> d.name] :
        d \in db.Category }

\* An INSERT into a table without unique_together.
InsertUnconstrained(key, committed, pending) == "inserted"

\* The INSERT of get_or_create under unique_together = [organization,
\* name]: it waits while another transaction holds the same row
\* uncommitted, raises IntegrityError when the row is committed, and
\* inserts otherwise.
Insert(key, committed, pending) ==
    IF key \in pending THEN "waits"
    ELSE IF key \in committed THEN "IntegrityError"
    ELSE "inserted"

\* The row raises before the get_or_create of the table.
RaisesBefore(self, row, i, table) ==
    \/ table = "Supplier" /\ ~RowOrganization(self, row, i).ok
    \/ Dimension(self, row, i, table).name \in {<<>>, <<"'">>}

\* The exception leaves _process_row: the row's transaction is rolled back
\* and the loop counts the failure.
RowRaises(r) ==
    LET self   == processor[r]
        result == _process_row(self, db, iloc(Open(self.file), index[r]), index[r])
    IN  /\ processor' = [processor EXCEPT ![r] = RowStep(self, result, index[r])]
        /\ index' = [index EXCEPT ![r] = AfterRow(self, @, result)]
        /\ txn' = [txn EXCEPT ![r].at = "none", ![r].writes = {}]
        /\ UNCHANGED db

\* The row's transaction begins; the organization is resolved and the
\* supplier's name is looked at.
row_begin(r) ==
    /\ pc[r] = "rows"
    /\ index[r] < len(Open(processor[r].file))
    /\ txn[r].at = "none"
    /\ IF RaisesBefore(processor[r], iloc(Open(processor[r].file), index[r]),
                       index[r], "Supplier")
          THEN RowRaises(r)
          ELSE /\ txn' = [txn EXCEPT ![r].at = "supplier"]
               /\ UNCHANGED <<processor, index, db>>
    /\ UNCHANGED <<pc, data_uploads, raised, began_after, corpus, sessions,
                   argument, returned, audit_log>>

\* get_or_create: the get.
dimension_get(r) ==
    /\ pc[r] = "rows"
    /\ txn[r].at \in {"supplier", "category"}
    /\ LET self  == processor[r]
           row   == iloc(Open(self.file), index[r])
           table == IF txn[r].at = "supplier" THEN "Supplier" ELSE "Category"
           key   == Dimension(self, row, index[r], table)
       IN  IF RaisesBefore(self, row, index[r], table)
              THEN RowRaises(r)
              ELSE /\ txn' = [txn EXCEPT ![r].at =
                                 IF key \in CommittedRows \cup txn[r].writes
                                    THEN IF table = "Supplier" THEN "category"
                                                               ELSE "rest"
                                    ELSE IF table = "Supplier" THEN "supplier_insert"
                                                               ELSE "category_insert"]
                   /\ UNCHANGED <<processor, index, db>>
    /\ UNCHANGED <<pc, data_uploads, raised, began_after, corpus, sessions,
                   argument, returned, audit_log>>

\* get_or_create: the create after a get that found nothing, and the
\* second get after an IntegrityError.
dimension_insert(r) ==
    /\ pc[r] = "rows"
    /\ txn[r].at \in {"supplier_insert", "category_insert"}
    /\ LET self  == processor[r]
           row   == iloc(Open(self.file), index[r])
           table == IF txn[r].at = "supplier_insert" THEN "Supplier" ELSE "Category"
           key   == Dimension(self, row, index[r], table)
           outcome == Insert(key, CommittedRows,
                             UNION {txn[q].writes : q \in Runs \ {r}})
           next  == IF table = "Supplier" THEN "category" ELSE "rest"
       IN  /\ outcome # "waits"
           /\ txn' = IF outcome = "inserted"
                        THEN [txn EXCEPT ![r].at = next, ![r].writes = @ \cup {key}]
                        ELSE [txn EXCEPT ![r].at = next, ![r].conflicts = @ \cup {key}]
    /\ UNCHANGED <<pc, processor, index, db, data_uploads, raised, began_after,
                   corpus, sessions, argument, returned, audit_log>>

\* The rest of the row: date, amount, the Transaction; then the commit, or
\* the rollback when one of them raised.
row_end(r) ==
    /\ pc[r] = "rows"
    /\ txn[r].at = "rest"
    /\ LET self   == processor[r]
           result == _process_row(self, db, iloc(Open(self.file), index[r]), index[r])
       IN  /\ db' = result.db
           /\ processor' = [processor EXCEPT ![r] = RowStep(self, result, index[r])]
           /\ index' = [index EXCEPT ![r] = AfterRow(self, @, result)]
           /\ txn' = [txn EXCEPT
                        ![r].at = "none",
                        ![r].writes = {},
                        ![r].inserted = IF result.outcome = "created"
                                           THEN @ \cup txn[r].writes ELSE @]
    /\ UNCHANGED <<pc, data_uploads, raised, began_after, corpus, sessions,
                   argument, returned, audit_log>>

NextRace ==
    \E r \in Runs :
        \/ upload_csv(r)
        \/ process_read(r)
        \/ row_begin(r)
        \/ dimension_get(r)
        \/ dimension_insert(r)
        \/ row_end(r)
        \/ process_finish(r)

\* Uploads that run side by side, their rows taken statement by statement.
SpecRace == InitRace /\ [][NextRace]_vars

(***************************************************************************)
(* The audit trail: the two views that call process() log the upload with  *)
(* log_action, which creates an AuditLog; AuditLog.save validates first.   *)
(***************************************************************************)
\* AuditLog.ALLOWED_DETAIL_KEYS
ALLOWED_DETAIL_KEYS ==
    {"file_name", "successful", "failed", "duplicate", "batch_id", "record_id",
     "changes", "count", "username", "error", "old_value", "new_value",
     "reason", "target_id", "target_type", "organizations_affected"}

TEXT_ADDRESS == <<"9", ".", "9", ".", "9", ".", "9">>

\* request.META of the requests made: no X-Forwarded-For header, one
\* address, a chain of two, and a text that is no address.
Requests ==
    { [HTTP_X_FORWARDED_FOR |-> x, REMOTE_ADDR |-> TEXT_ADDRESS] :
        x \in {None, TEXT_ADDRESS, TEXT_ADDRESS \o <<",", " ">> \o TEXT_ADDRESS,
               <<"a">>} }

\* x_forwarded_for.split(',')[0]
FirstOfSplit(text) ==
    LET commas == {i \in 1..Len(text) : text[i] = ","}
    IN  IF commas = {} THEN text
        ELSE SubSeq(text, 1, (CHOOSE i \in commas : \A j \in commas : i <= j) - 1)

get_client_ip(request) ==
    IF request.HTTP_X_FORWARDED_FOR \notin {None, <<>>}
       THEN FirstOfSplit(request.HTTP_X_FORWARDED_FOR)
       ELSE request.REMOTE_ADDR

\* The validator of GenericIPAddressField on the texts above: four groups
\* of one to three digits with dots between them.
IsIPAddress(text) ==
    LET dots == {i \in 1..Len(text) : text[i] = "."}
        ends == {0, Len(text) + 1} \cup dots
    IN  /\ Cardinality(dots) = 3
        /\ \A i \in (1..Len(text)) \ dots :
               text[i] \in Digits
        /\ \A i \in ends : i + 1 \notin ends
        /\ \A i \in 1..(Len(text) - 3) : \E j \in i..(i + 3) : j \in dots

\* AuditLog.clean: every key of the details is an allowed key.
clean(log_data) == DOMAIN log_data.details \subseteq ALLOWED_DETAIL_KEYS

\* AuditLog.save: full_clean() checks the fields, then clean(); the row is
\* written when both pass, and ValidationError is raised otherwise.
save(log_data) ==
    IF /\ log_data.ip_address = None \/ IsIPAddress(log_data.ip_address)
       /\ clean(log_data)
       THEN [raised |-> FALSE, created |-> <<log_data>>]
       ELSE [raised |-> TRUE, created |-> <<>>]

\* log_action: nothing without a profile, else AuditLog.objects.create.
log_action(user, action, resource, resource_id, details, request) ==
    IF "organization" \notin DOMAIN user
       THEN [raised |-> FALSE, created |-> <<>>]
       ELSE save([user         |-> user.id,
                  organization |-> user.organization,
                  action       |-> action,
                  resource     |-> resource,
                  resource_id  |-> resource_id,
                  details      |-> details,
                  ip_address   |-> get_client_ip(request)])

\* The request's user.
RequestUser(self) == CHOOSE user \in Users : user.id = self.user

\* 'organizations_affected', for a super admin whose rows named some.
OrganizationsAffected(self) ==
    IF self.allow_multi_org /\ self.orgs_affected # {}
       THEN [organizations_affected |-> self.orgs_affected]
       ELSE <<>>

\* TransactionViewSet.upload_csv after process() returned: the details, the
\* log_action, and the response, 400 when anything in the try raised.
upload_csv_log_action(r) ==
    /\ pc[r] = "returned"
    /\ \E request \in Requests :
         LET self   == processor[r]
             upload == data_uploads[r]
             audit_details ==
                 [file_name  |-> self.file.name,
                  successful |-> upload.successful_rows,
                  failed     |-> upload.failed_rows] @@ OrganizationsAffected(self)
             logged == log_action(RequestUser(self), "upload", "transactions",
                                  upload.batch_id, audit_details, request)
         IN  /\ audit_log' = audit_log \o logged.created
             /\ pc' = [pc EXCEPT ![r] = IF logged.raised THEN "HTTP_400_BAD_REQUEST"
                                                         ELSE "HTTP_201_CREATED"]
    /\ UNCHANGED <<processor, index, db, data_uploads, raised, began_after,
                   corpus, sessions, argument, returned, txn>>

\* DataUploadAdmin.upload_csv_view after process() returned: the details
\* with the duplicates, the log_action, and the redirect, or the form again
\* with 'Unexpected error' when anything in the try raised.
upload_csv_view_log_action(r) ==
    /\ pc[r] = "returned"
    /\ \E request \in Requests :
         LET self   == processor[r]
             upload == data_uploads[r]
             audit_details ==
                 [file_name  |-> self.file.name,
                  successful |-> upload.successful_rows,
                  failed     |-> upload.failed_rows,
                  duplicates |-> upload.duplicate_rows] @@ OrganizationsAffected(self)
             logged == log_action(RequestUser(self), "upload", "transactions",
                                  upload.batch_id, audit_details, request)
         IN  /\ audit_log' = audit_log \o logged.created
             /\ pc' = [pc EXCEPT ![r] = IF logged.raised THEN "render"
                                                         ELSE "redirect"]
    /\ UNCHANGED <<processor, index, db, data_uploads, raised, began_after,
                   corpus, sessions, argument, returned, txn>>

NextAudit ==
    \E r \in Runs :
        \/ upload_csv(r)
        \/ process_read(r)
        \/ _process_rows(r)
        \/ process_finish(r)
        \/ upload_csv_log_action(r)
        \/ upload_csv_view_log_action(r)

\* Uploads through the two views, with their audit trail.
SpecAudit == InitOrganizations /\ [][NextAudit]_vars

(***************************************************************************)
(* Properties.                                                             *)
(***************************************************************************)
\* The runs whose process() returned its record after the loop over the rows.
Finished == {r \in DOMAIN data_uploads : pc[r] = "returned"}

\* The stored transactions of a batch, counted with their copies.
BatchTransactions(batch_id) ==
    LET stored == db.Transaction
        own    == {t \in BagToSet(stored) : t.upload_batch = batch_id}
    IN  BagCardinality([t \in own |-> stored[t]])

\* What a row does when it is processed on empty tables.
Alone(self, i) == _process_row(self, EmptyDb, iloc(Open(self.file), i), i)

\* The fields the transactions of one organization are told apart by.
TransactionKey(t) ==
    <<t.organization, t.supplier, t.category, t.amount, t.date, t.invoice_number>>

\* A file that passes every whole-file check and whose rows are all valid
\* and are pairwise different transactions.
CleanFile(self) ==
    LET file == Open(self.file)
        KeyOf(i) == {TransactionKey(t) : t \in BagToSet(Alone(self, i).db.Transaction)}
    IN  /\ validate_csv_file(file).is_valid
        /\ read_csv(file).ok
        /\ ~ExceedsRowLimit(len(file))
        /\ _validate_columns(file) = <<>>
        /\ \A i \in 0..(len(file) - 1) : Alone(self, i).outcome = "created"
        /\ \A i, j \in 0..(len(file) - 1) : i # j => KeyOf(i) # KeyOf(j)

C2_SecondRunSkipsEveryRow ==
    \A a, b \in Finished :
        (/\ a # b
         /\ began_after[a] = {}
         /\ a \in began_after[b]
         /\ \A c \in Runs \ {a, b} : pc[c] = "idle"
         /\ processor[a].file = processor[b].file
         /\ processor[a].default_organization = processor[b].default_organization
         /\ processor[a].allow_multi_org = processor[b].allow_multi_org
         /\ processor[a].skip_duplicates
         /\ processor[b].skip_duplicates
         /\ CleanFile(processor[a]))
        => LET N == len(Open(processor[a].file))
           IN  /\ data_uploads[a].successful_rows = N
               /\ data_uploads[a].duplicate_rows = 0
               /\ data_uploads[b].successful_rows = 0
               /\ data_uploads[b].duplicate_rows = N
               /\ BatchTransactions(b) = 0

\* C3: no two stored transactions have the same organization, supplier,
\* category, amount, date and invoice number.
C3_TransactionKeyIsUnique ==
    \A t \in BagToSet(db.Transaction) :
        /\ db.Transaction[t] = 1
        /\ \A u \in BagToSet(db.Transaction) :
               TransactionKey(t) = TransactionKey(u) => t = u

\* C4: the status of a finished batch follows from its counters alone:
\* completed iff no row failed, partial iff some row failed and some row was
\* stored, failed iff some row failed and none was stored.
C4_StatusFollowsCounters ==
    \A r \in Finished :
        LET upload == data_uploads[r]
        IN  /\ upload.status = "completed" <=> upload.failed_rows = 0
            /\ upload.status = "partial" <=>
                  (upload.failed_rows > 0 /\ upload.successful_rows > 0)
            /\ upload.status = "failed" <=>
                  (upload.failed_rows > 0 /\ upload.successful_rows = 0)

\* A finished batch whose rows all failed, next to one whose rows were all
\* stored.
C4_FailedAndCompletedFinished ==
    \E r, q \in Finished :
        /\ data_uploads[r].status = "failed"
        /\ data_uploads[r].total_rows > 0
        /\ data_uploads[q].status = "completed"
        /\ data_uploads[q].total_rows > 0

\* The statuses a batch ends in.
Terminal == {"completed", "partial", "failed"}

\* C5: a DataUpload record is created in status processing; every call of
\* process() that created the record ends, returning or raising, with the
\* record in a terminal status and completed_at set; a terminal record
\* never goes back to processing; and no record stays in processing for
\* ever.
C5_BatchLifecycle ==
    /\ [](\A r \in DOMAIN data_uploads :
            /\ data_uploads[r].status \in Terminal \cup {"processing"}
            /\ pc[r] \in {"returned", "raised"} =>
                  /\ data_uploads[r].status \in Terminal
                  /\ data_uploads[r].completed_at = "now")
    /\ [][\A r \in Runs :
            /\ (r \notin DOMAIN data_uploads /\ r \in DOMAIN data_uploads') =>
                  data_uploads'[r].status = "processing"
            /\ (r \in DOMAIN data_uploads /\ data_uploads[r].status \in Terminal) =>
                  /\ r \in DOMAIN data_uploads'
                  /\ data_uploads'[r].status # "processing"]_vars
    /\ \A r \in Runs :
           (r \in DOMAIN data_uploads /\ data_uploads[r].status = "processing")
              ~> (r \in DOMAIN data_uploads /\ data_uploads[r].status \in Terminal)

\* One call of process() has raised after creating its record, another has
\* returned.
C5_RaisedAndReturned ==
    \E r, q \in DOMAIN data_uploads :
        /\ pc[r] = "raised"
        /\ data_uploads[r].status = "failed"
        /\ pc[q] = "returned"

\* The rows among the first n of a run's file that raise, in file order.
FailingRows(self, n) ==
    SelectSeq([k \in 1..n |-> k - 1], LAMBDA i : Alone(self, i).outcome = "error")

\* C6: a row that fails is logged and counted and the loop goes on: the
\* rows are taken one by one in file order, each is counted exactly once,
\* every valid row is stored whatever became of the rows before it, and a
\* batch is finished only when the last row was processed.
C6_EveryRowProcessedOnce ==
    /\ [](\A r \in Runs :
            pc[r] \in {"rows", "returned"} =>
              LET self == processor[r]
                  n    == index[r]
                  failing == FailingRows(self, n)
              IN  /\ self.stats.successful + self.stats.failed
                        + self.stats.duplicates = n
                  /\ self.stats.failed = Len(failing)
                  /\ [k \in 1..Len(self.errors) |-> self.errors[k].row - 2] = failing
                  /\ BatchTransactions(self.batch_id) = n - Len(failing)
                  /\ pc[r] = "returned" => n = len(Open(self.file)))
    /\ [][\A r \in Runs :
            index'[r] # index[r] => index'[r] = index[r] + 1]_vars

\* A finished batch whose first row failed and whose second row was stored.
C6_StoredAfterFailure ==
    \E r \in Finished :
        /\ Len(processor[r].errors) = 1
        /\ processor[r].errors[1].row = 2
        /\ index[r] = 2
        /\ BatchTransactions(r) = 1

\* The cells the organization column of the exploration's rows holds.
OrganizationCells == {Rows[i].organization : i \in RowIds} \cup {NaN}

\* C7: when allow_multi_org is false, every Transaction, Supplier and
\* Category a run creates belongs to the caller's default organization, and
\* what a row does is the same whatever its organization cell holds.
C7_OrganizationColumnIgnored ==
    [][\A r \in Runs :
        (pc[r] = "rows" /\ index'[r] # index[r] /\ ~processor[r].allow_multi_org) =>
          LET self == processor[r]
              home == self.default_organization
              row  == iloc(Open(self.file), index[r])
              done == _process_row(self, db, row, index[r])
          IN  /\ \A s \in db'.Supplier \ db.Supplier : s.organization = home
              /\ \A c \in db'.Category \ db.Category : c.organization = home
              /\ \A t \in BagToSet(db'.Transaction) :
                     t.upload_batch = self.batch_id =>
                        /\ t.organization = home
                        /\ t.supplier.organization = home
                        /\ t.category.organization = home
              /\ db' = done.db
              /\ \A cell \in OrganizationCells :
                     _process_row(self, db, [row EXCEPT !.organization = cell],
                                  index[r]) = done]_vars

\* A caller without allow_multi_org has stored a row whose organization
\* cell names another organization.
C7_ForeignCellStoredAtHome ==
    \E r \in Runs :
        /\ pc[r] = "returned"
        /\ ~processor[r].allow_multi_org
        /\ len(Open(processor[r].file)) = 1
        /\ "organization" \in Open(processor[r].file).columns
        /\ notna(iloc(Open(processor[r].file), 0).organization)
        /\ BatchTransactions(r) = 1

\* A message the sanitizer lets through: no sensitive pattern, and no longer
\* than the limit and its ellipsis.
Sanitized(message) ==
    /\ \A pattern \in sensitive_patterns :
           ~Contains(lower(message), lower(pattern))
    /\ Len(message) <= MESSAGE_LIMIT + 3

\* The required columns a file lacks.
MissingRequired(file) ==
    {REQUIRED_COLUMNS[i] : i \in 1..Len(REQUIRED_COLUMNS)} \ file.columns

\* What a batch that was aborted as a whole looks like: failed, no row
\* counted, one sanitized log entry, no row processed and nothing stored.
AbortedWhole(r) ==
    /\ pc[r] = "raised"
    /\ data_uploads[r].status = "failed"
    /\ data_uploads[r].total_rows = 0
    /\ data_uploads[r].successful_rows = 0
    /\ Len(data_uploads[r].error_log) = 1
    /\ Sanitized(data_uploads[r].error_log[1].error)
    /\ index[r] = 0
    /\ BatchTransactions(r) = 0

\* C8: a readable file that lacks a required column aborts before any row
\* is processed: the batch ends failed with total_rows 0 and exactly one
\* sanitized error entry, and no Transaction, Supplier or Category is
\* created.
C8_MissingColumnAborts ==
    /\ [](\A r \in DOMAIN data_uploads :
            (/\ pc[r] # "created"
             /\ read_csv(Open(processor[r].file)).ok
             /\ MissingRequired(Open(processor[r].file)) # {}) => AbortedWhole(r))
    /\ [][\A r \in DOMAIN data_uploads :
            (/\ pc'[r] # pc[r]
             /\ MissingRequired(Open(processor[r].file)) # {}) => db' = db]_vars

\* A batch aborted for a missing column alone.
C8_AbortedForMissingColumn ==
    \E r \in DOMAIN data_uploads :
        /\ pc[r] = "raised"
        /\ MissingRequired(Open(processor[r].file)) # {}
        /\ len(Open(processor[r].file)) <= MAX_ROWS_PER_UPLOAD
        /\ Contains(data_uploads[r].error_log[1].error, MSG_MISSING_COLUMNS)

\* C9: a file of more than 50,000 data rows is aborted as a whole before
\* any row is processed, and a file of exactly 50,000 rows is not turned
\* away for its size: its rows are processed and the batch finishes.
C9_RowLimit ==
    \A r \in DOMAIN data_uploads :
        LET file == Open(processor[r].file)
        IN  pc[r] # "created" =>
              /\ len(file) > 50000 => AbortedWhole(r)
              /\ (len(file) = 50000 /\ MissingRequired(file) = {}) =>
                    /\ pc[r] \in {"rows", "returned"}
                    /\ raised[r] = <<>>
                    /\ pc[r] = "returned" =>
                          /\ index[r] = 50000
                          /\ data_uploads[r].total_rows = 50000
                          /\ data_uploads[r].status = "completed"

\* A file of exactly 50,000 rows was processed to its last row.
C9_FileAtLimitFinished ==
    \E r \in Finished :
        /\ len(Open(processor[r].file)) = 50000
        /\ data_uploads[r].successful_rows = 50000
        /\ BatchTransactions(r) = 50000

\* The files pre-flight validation turns away: a name that does not end in
\* .csv, more than 50 MiB, a null byte in the first 1024 bytes, or a stream
\* that cannot be read.
Rejected(file) ==
    \/ ~endswith(lower(file.name), <<".", "c", "s", "v">>)
    \/ file.size > 50 * 1024 * 1024
    \/ file.nul
    \/ ~file.readable

\* C10 as stated: a file that pre-flight validation turns away leaves a
\* batch record in status failed with zero rows and exactly one sanitized
\* error entry, and nothing stored.
C10_RejectedFileLeavesFailedBatch ==
    \A r \in Runs :
        (pc[r] # "idle" /\ Rejected(Open(processor[r].file))) =>
            /\ r \in DOMAIN data_uploads
            /\ AbortedWhole(r)

\* C10 as the code has it: a file that pre-flight validation turns away
\* makes process() raise "Invalid file: <reason>" before any batch record
\* is created; no record exists for the run, no row is processed and no
\* Transaction, Supplier or Category is created.
C10_RejectedFileLeavesNoRecord ==
    /\ [](\A r \in Runs :
            (pc[r] # "idle" /\ Rejected(Open(processor[r].file))) =>
                /\ pc[r] = "raised"
                /\ r \notin DOMAIN data_uploads
                /\ SubSeq(raised[r], 1, Len(MSG_INVALID_FILE)) = MSG_INVALID_FILE
                /\ Len(raised[r]) > Len(MSG_INVALID_FILE)
                /\ index[r] = 0
                /\ BatchTransactions(r) = 0)
    /\ [][\A r \in Runs :
            (pc'[r] # pc[r] /\ Rejected(Open(processor'[r].file))) => db' = db]_vars

\* A run turned away for an oversized file has raised, next to a run that
\* stored its rows.
C10_RejectedRunRaised ==
    \E r \in Runs :
        /\ pc[r] = "raised"
        /\ Rejected(Open(processor[r].file))
        /\ Open(processor[r].file).size > 50 * 1024 * 1024
        /\ \E q \in Runs : q # r /\ pc[q] = "returned" /\ BatchTransactions(q) > 0

\* C11: a three-row file ingested with skip_duplicates, made of a valid
\* new transaction, an exact duplicate of a transaction an earlier upload
\* of the same tenant stored, and a row with an unparseable date, ends
\* with successful 1, duplicates 1, failed 1 and status partial, whatever
\* the order of its rows.
C11_ScenarioCounts ==
    \A a, b \in Finished :
        (/\ a # b
         /\ began_after[a] = {}
         /\ a \in began_after[b]
         /\ \A c \in Runs \ {a, b} : pc[c] = "idle"
         /\ Open(processor[a].file) = CsvFile(<<1>>)
         /\ Len(Open(processor[b].file).rows) = 3
         /\ processor[a].user = processor[b].user
         /\ processor[b].skip_duplicates)
        => /\ data_uploads[b].successful_rows = 1
           /\ data_uploads[b].duplicate_rows = 1
           /\ data_uploads[b].failed_rows = 1
           /\ data_uploads[b].status = "partial"

\* The active tenants an organization cell names, by name or by slug,
\* whatever the case of the letters.
Tenants(cell) ==
    {i \in OrgIds :
        /\ Organizations[i].is_active
        /\ \/ lower(Organizations[i].name) = lower(strip(str(cell)))
           \/ lower(Organizations[i].slug) = lower(strip(str(cell)))}

\* The rows of a multi-org run's file that name an organization.
NamesOrganization(self, i) ==
    /\ self.allow_multi_org
    /\ "organization" \in Open(self.file).columns
    /\ notna(iloc(Open(self.file), i).organization)

\* C12: in multi-org mode a row whose organization cell matches no active
\* tenant is a row error whose message lists the valid tenant names and
\* creates nothing; the other rows are stored in the tenants they name, and
\* a batch with such a row and at least one stored row ends partial.
C12_UnknownOrganizationIsRowError ==
    /\ [][\A r \in Runs :
            (/\ pc[r] = "rows"
             /\ index'[r] # index[r]
             /\ NamesOrganization(processor[r], index[r])
             /\ Tenants(iloc(Open(processor[r].file), index[r]).organization) = {}) =>
                /\ db' = db
                /\ processor'[r].stats.failed = processor[r].stats.failed + 1
                /\ processor'[r].stats.successful = processor[r].stats.successful
                /\ Len(processor'[r].errors) = Len(processor[r].errors) + 1
                /\ LET entry == processor'[r].errors[Len(processor'[r].errors)]
                   IN  /\ entry.row = index[r] + 2
                       /\ \A i \in OrgIds :
                              Organizations[i].is_active =>
                                 Contains(entry.error, Organizations[i].name)]_vars
    /\ [](\A r \in Finished :
            LET self == processor[r]
                rows == 0..(len(Open(self.file)) - 1)
                unknown == {i \in rows :
                              /\ NamesOrganization(self, i)
                              /\ Tenants(iloc(Open(self.file), i).organization) = {}}
            IN  /\ \A i \in rows :
                       (/\ NamesOrganization(self, i)
                        /\ i \notin unknown
                        /\ to_datetime(iloc(Open(self.file), i).date).ok) =>
                          \E t \in BagToSet(db.Transaction) :
                              /\ t.upload_batch = self.batch_id
                              /\ {t.organization} =
                                    Tenants(iloc(Open(self.file), i).organization)
                              /\ t.supplier.organization = t.organization
                              /\ t.category.organization = t.organization
                /\ (unknown # {} /\ data_uploads[r].successful_rows > 0) =>
                      data_uploads[r].status = "partial"
                /\ data_uploads[r].failed_rows >= Cardinality(unknown))

\* A finished multi-org batch of three rows: one names no active tenant,
\* the other two were stored in two different tenants, and the status is
\* partial.
C12_OneUnknownTwoTenants ==
    \E r \in Finished :
        /\ processor[r].allow_multi_org
        /\ data_uploads[r].total_rows = 3
        /\ data_uploads[r].failed_rows = 1
        /\ data_uploads[r].successful_rows = 2
        /\ data_uploads[r].status = "partial"
        /\ Contains(data_uploads[r].error_log[1].error, MSG_NOT_FOUND)
        /\ {t.organization : t \in {u \in BagToSet(db.Transaction) :
                                       u.upload_batch = r}} = {1, 2}

\* A row that is valid and whose transaction has the key of a transaction
\* that is already stored.
Conflicts(self, i) ==
    /\ Alone(self, i).outcome = "created"
    /\ \E t \in BagToSet(Alone(self, i).db.Transaction),
          u \in BagToSet(db.Transaction) : TransactionKey(t) = TransactionKey(u)

\* C13: a row whose transaction conflicts with a stored one stores nothing;
\* with skip_duplicates it is counted in duplicates only and logs nothing,
\* without it is counted in failed with the entry "Duplicate transaction
\* detected" and duplicates is left alone.
C13_ConflictIsDuplicateOrError ==
    [][\A r \in Runs :
         (/\ pc[r] = "rows"
          /\ index'[r] # index[r]
          /\ Conflicts(processor[r], index[r])) =>
             /\ db'.Transaction = db.Transaction
             /\ IF processor[r].skip_duplicates
                   THEN /\ processor'[r].stats =
                             [processor[r].stats EXCEPT !.duplicates = @ + 1]
                        /\ processor'[r].errors = processor[r].errors
                   ELSE /\ processor'[r].stats =
                             [processor[r].stats EXCEPT !.failed = @ + 1]
                        /\ processor'[r].errors =
                             Append(processor[r].errors,
                                    [row |-> index[r] + 2, error |-> MSG_DUPLICATE])]_vars

\* Whether the content of a cell makes its row fail: a date that is not
\* parsed, an amount that is refused, an organization that is not found.
CellFails(field, cell) ==
    CASE field = "date"         -> ~to_datetime(cell).ok
      [] field = "amount"       -> ~ParseAmount(cell).ok
      [] field = "organization" -> notna(cell) /\ Tenants(cell) = {}

\* Another failing content for each of these cells.
OtherCell ==
    [date |-> <<"y">>, amount |-> <<"-", "6">>, organization |-> <<"y", "y">>]

\* C14: the error log holds a row number and a message that does not
\* depend on what the row's cells contain: had a failing cell of a logged
\* row held another failing content, the logged message would be the same.
C14_LogIndependentOfCells ==
    \A r \in Finished :
        \A k \in 1..Len(data_uploads[r].error_log) :
            LET self  == processor[r]
                entry == data_uploads[r].error_log[k]
                i     == entry.row - 2
                row   == iloc(Open(self.file), i)
            IN  /\ DOMAIN entry = {"row", "error"}
                /\ \A field \in DOMAIN OtherCell :
                       (/\ CellFails(field, row[field])
                        /\ CellFails(field, OtherCell[field])) =>
                          entry.error =
                            _sanitize_error_message(
                               _process_row(self, EmptyDb,
                                            [row EXCEPT ![field] = OtherCell[field]],
                                            i).error)

\* C15: the stored error log never holds more than 100 entries; the
\* entries of a finished batch are its first failures in row order, each a
\* row number and a sanitized message and nothing else, and failed_rows
\* counts every failing row.
C15_ErrorLogIsBounded ==
    \A r \in DOMAIN data_uploads :
        LET upload == data_uploads[r]
            self   == processor[r]
            failing == FailingRows(self, len(Open(self.file)))
        IN  /\ Len(upload.error_log) <= 100
            /\ \A k \in 1..Len(upload.error_log) :
                   /\ DOMAIN upload.error_log[k] \subseteq {"row", "error"}
                   /\ Sanitized(upload.error_log[k].error)
            /\ r \in Finished =>
                  /\ upload.failed_rows = Len(failing)
                  /\ Len(upload.error_log) =
                        IF Len(failing) < 100 THEN Len(failing) ELSE 100
                  /\ \A k \in 1..Len(upload.error_log) :
                         /\ DOMAIN upload.error_log[k] = {"row", "error"}
                         /\ upload.error_log[k].row = failing[k] + 2

\* A finished batch in which more than 100 rows failed between rows that
\* were stored, and whose log holds 100 entries.
C15_MoreFailuresThanEntries ==
    \E r \in Finished :
        /\ data_uploads[r].failed_rows > 100
        /\ data_uploads[r].successful_rows > 0
        /\ Len(data_uploads[r].error_log) = 100
        /\ data_uploads[r].error_log[100].row = 201

\* C16: every message process() stores in an error log or raises to its
\* caller holds none of the sensitive substrings, whatever the case of its
\* letters, and is at most 200 characters long plus the marker "...": it
\* is what the sanitizer makes of it.
C16_MessagesAreSanitized ==
    /\ \A r \in DOMAIN data_uploads :
           \A k \in 1..Len(data_uploads[r].error_log) :
               LET message == data_uploads[r].error_log[k].error
               IN  /\ \A pattern \in sensitive_patterns :
                          ~Contains(lower(message), lower(pattern))
                   /\ Len(message) <= 200 + 3
                   /\ Len(message) > 200 =>
                          SubSeq(message, 201, 203) = <<".", ".", ".">>
    /\ \A r \in Runs :
           pc[r] = "raised" =>
               /\ raised[r] # <<>>
               /\ \A pattern \in sensitive_patterns :
                      ~Contains(lower(raised[r]), lower(pattern))
               /\ Len(raised[r]) <= 200 + 3
               /\ _sanitize_error_message(raised[r]) = raised[r]

\* A finished batch whose log holds the generic message in place of one
\* that held a sensitive pattern, and a message cut at 200 characters.
C16_ReplacedAndTruncated ==
    \E r \in Finished :
        /\ \E k \in 1..Len(data_uploads[r].error_log) :
               /\ data_uploads[r].error_log[k].error = MSG_GENERIC
               /\ Contains(lower(processor[r].errors[k].error), <<"s", "q", "l">>)
        /\ \E k \in 1..Len(data_uploads[r].error_log) :
               /\ Len(data_uploads[r].error_log[k].error) = 200 + 3
               /\ Len(processor[r].errors[k].error) > 200 + 3

\* C17: for a text v, sanitize_csv_value(v) is trim(v) with a quote in
\* front when trim(v) is not empty and begins with one of = + - @ TAB CR
\* LF, and trim(v) otherwise; "=SUM(A1:A9)" becomes "'=SUM(A1:A9)" and
\* "Acme Corp" stays as it is.
C17_QuoteBeforeFormula ==
    "sanitize_csv_value" \in DOMAIN returned =>
        LET trimmed == strip(argument)
            result  == returned["sanitize_csv_value"]
        IN  /\ result =
                  IF /\ trimmed # <<>>
                     /\ trimmed[1] \in {"=", "+", "-", "@", "\t", "\r", "\n"}
                     THEN <<"'">> \o trimmed
                     ELSE trimmed
            /\ argument = TEXT_SUM => result = <<"'">> \o TEXT_SUM
            /\ argument = TEXT_ACME => result = TEXT_ACME

\* The sanitizer returned a formula that stood behind white space, trimmed
\* and with the quote in front.
C17_FormulaBehindBlankQuoted ==
    /\ argument = <<" ", "=", "a">>
    /\ "sanitize_csv_value" \in DOMAIN returned
    /\ returned["sanitize_csv_value"] = <<"'", "=", "a">>

\* C18: sanitize_csv_value is idempotent: sanitizing what it returned
\* returns the same text, so a value that got its quote on ingest gets no
\* second one when it is sanitized again on export.
C18_SanitizeIsIdempotent ==
    /\ "sanitize_csv_value" \in DOMAIN returned =>
          sanitize_csv_value(returned["sanitize_csv_value"]) =
             returned["sanitize_csv_value"]
    /\ "export" \in DOMAIN returned =>
          returned["export"] = returned["sanitize_csv_value"]

\* A text that got its quote on ingest was exported with that one quote.
C18_QuotedOnceAfterExport ==
    /\ argument = <<"\t", "=", "a">>
    /\ "export" \in DOMAIN returned
    /\ returned["export"] = <<"'", "=", "a">>

\* A text a spreadsheet would take for a formula.
BeginsFormula(text) ==
    /\ text # <<>>
    /\ text[1] \in {"=", "+", "-", "@", "\t", "\r", "\n"}

\* C19: no string field stored by ingestion (supplier name, category name,
\* description, subcategory, location, spend_band, payment_method,
\* invoice_number) and no string cell export_transactions_to_csv returns
\* begins with one of = + - @ TAB CR LF.
C19_NoStoredOrExportedFormula ==
    /\ \A supplier \in db.Supplier : ~BeginsFormula(supplier.name)
    /\ \A category \in db.Category : ~BeginsFormula(category.name)
    /\ \A t \in BagToSet(db.Transaction) :
           /\ ~BeginsFormula(t.supplier.name)
           /\ ~BeginsFormula(t.category.name)
           /\ \A field \in {"description", "subcategory", "location",
                             "spend_band", "payment_method", "invoice_number"} :
                  ~BeginsFormula(t[field])
    /\ "export_transactions_to_csv" \in DOMAIN returned =>
           \A row \in BagToSet(returned["export_transactions_to_csv"].df) :
               \A col \in string_columns : ~BeginsFormula(row[col])

\* A row whose description cell held a formula behind a blank was stored
\* and exported with one quote in front.
C19_FormulaCellStoredAndExported ==
    /\ \E r \in Finished :
           /\ iloc(Open(processor[r].file), 0).description = <<" ", "=">>
           /\ \E t \in BagToSet(db.Transaction) :
                  /\ t.upload_batch = r
                  /\ t.description = <<"'", "=">>
    /\ "export_transactions_to_csv" \in DOMAIN returned
    /\ \E row \in BagToSet(returned["export_transactions_to_csv"].df) :
           row["Description"] = <<"'", "=">>

\* Decimal(text) lies between 0 and the ceiling, both included.
WithinCeiling(text) ==
    /\ Decimal(text).ok
    /\ ~Decimal(text).neg
    /\ ~DecimalGreater(Decimal(text), AMOUNT_CEILING)

\* The amount a step stored, if it stored one.
NewlyStored ==
    {t.amount : t \in {u \in BagToSet(db'.Transaction) :
                          CopiesIn(u, db'.Transaction) > CopiesIn(u, db.Transaction)}}

BlankName(cell) == ~notna(cell) \/ strip(cell) = <<>>

\* C21: a row whose supplier or category cell is blank, or empty once
\* trimmed, is a row error that says the name is required and stores no
\* Supplier, Category or Transaction.
C21_BlankNameIsRowError ==
    [][\A r \in Runs :
         (/\ pc[r] = "rows"
          /\ index'[r] # index[r]
          /\ \/ BlankName(iloc(Open(processor[r].file), index[r]).supplier)
             \/ BlankName(iloc(Open(processor[r].file), index[r]).category)) =>
             /\ db' = db
             /\ processor'[r].stats.failed = processor[r].stats.failed + 1
             /\ Len(processor'[r].errors) = Len(processor[r].errors) + 1
             /\ processor'[r].errors[Len(processor'[r].errors)].error \in
                   {MSG_SUPPLIER_REQUIRED, MSG_CATEGORY_REQUIRED}]_vars

\* The permissions a role passes.
Matrix ==
    [admin   |-> {"IsAdmin", "IsManager", "CanUploadData", "CanDeleteData"},
     manager |-> {"IsManager", "CanUploadData"},
     viewer  |-> {}]

\* C22: the role permissions are a fixed matrix: an admin passes IsAdmin,
\* IsManager, CanUploadData and CanDeleteData, a manager IsManager and
\* CanUploadData only, a viewer none, and so does a user who is not
\* authenticated or has no profile.
C22_RoleMatrix ==
    \A name \in DOMAIN returned \cap
                 {"IsAdmin", "IsManager", "CanUploadData", "CanDeleteData"} :
        LET user == argument.user
            passes == ~returned[name].raised /\ returned[name].value
        IN  /\ ~returned[name].raised
            /\ (user.is_none \/ ~user.is_authenticated \/ ~user.has_profile) =>
                   ~passes
            /\ (/\ ~user.is_none /\ user.is_authenticated /\ user.has_profile
                /\ user.profile.role \in DOMAIN Matrix) =>
                   (passes <=> name \in Matrix[user.profile.role])

\* A manager was asked all four: IsManager and CanUploadData passed,
\* IsAdmin and CanDeleteData did not.
C22_ManagerAsked ==
    /\ argument.user.has_profile
    /\ argument.user.profile.role = "manager"
    /\ {"IsAdmin", "IsManager", "CanUploadData", "CanDeleteData"} \subseteq
          DOMAIN returned
    /\ returned["IsManager"].value
    /\ returned["CanUploadData"].value
    /\ ~returned["IsAdmin"].value
    /\ ~returned["CanDeleteData"].value

\* C23: IsSameOrganization grants exactly when the user is authenticated,
\* has a profile, and the object's organization, or for an object without
\* the attribute the organization of its user's profile, is the user's;
\* an object with neither is denied.
C23_SameOrganizationOnly ==
    "IsSameOrganization" \in DOMAIN returned =>
        LET user == argument.user
            obj  == argument.obj
            granted == /\ ~returned["IsSameOrganization"].raised
                       /\ returned["IsSameOrganization"].value
        IN  /\ granted <=>
                  /\ ~user.is_none
                  /\ user.is_authenticated
                  /\ user.has_profile
                  /\ IF obj.has_organization
                        THEN obj.organization = user.profile.organization
                        ELSE /\ obj.has_user
                             /\ obj.user_has_profile
                             /\ obj.user_organization = user.profile.organization
            /\ (~obj.has_organization /\ ~obj.has_user) => ~granted

\* An object without organization was granted through its user's profile,
\* and the user asking is a viewer.
C23_GrantedThroughObjectUser ==
    /\ "IsSameOrganization" \in DOMAIN returned
    /\ ~argument.obj.has_organization
    /\ argument.obj.user_organization = 2
    /\ argument.user.profile.organization = 2
    /\ argument.user.profile.role = "viewer"
    /\ returned["IsSameOrganization"].value

\* C24: the writes of a row are one atomic unit: a row that fails leaves
\* the tables as they were, the rows stored before it included, so that
\* no Supplier or Category is stored without a Transaction that refers to
\* it.
C24_RowIsAtomic ==
    /\ [][\A r \in Runs :
            (/\ pc[r] = "rows"
             /\ index'[r] # index[r]
             /\ processor'[r].stats.failed # processor[r].stats.failed) => db' = db]_vars
    /\ [](\A dimension \in db.Supplier \cup db.Category :
             \E t \in BagToSet(db.Transaction) :
                 dimension \in {t.supplier, t.category})

\* A finished batch whose first row was stored and whose second row, for
\* a supplier not seen before, failed on its date: the first row's
\* supplier is stored, the second row's is not.
C24_FailedRowLeftNoSupplier ==
    \E r \in Finished :
        /\ Open(processor[r].file) = CsvFile(<<1, 3>>)
        /\ data_uploads[r].successful_rows = 1
        /\ data_uploads[r].failed_rows = 1
        /\ [organization |-> processor[r].default_organization, name |-> <<"a">>]
              \in db.Supplier
        /\ [organization |-> processor[r].default_organization, name |-> <<"b">>]
              \notin db.Supplier

\* The counters of a batch.
Counters == {"successful", "failed", "duplicates"}

C26_OneRowPerName ==
    /\ \A r, q \in Runs : r # q => txn[r].writes \cap txn[q].writes = {}
    /\ \A key \in CommittedRows :
            Cardinality({r \in Runs : key \in txn[r].inserted}) = 1
    /\ \A r \in Finished :
            LET self == processor[r]
                n    == len(Open(self.file))
            IN  /\ data_uploads[r].failed_rows = Len(FailingRows(self, n))
                /\ data_uploads[r].successful_rows = n - Len(FailingRows(self, n))

\* Two finished uploads of one tenant: one inserted the supplier, the other
\* met the committed row on its own insert, fetched it, and stored its row.
C26_LoserFetchedAndSucceeded ==
    \E r, q \in Finished :
        \E key \in txn[r].inserted \cap txn[q].conflicts :
            /\ r # q
            /\ key.table = "Supplier"
            /\ data_uploads[q].failed_rows = 0
            /\ data_uploads[q].successful_rows >= 1
            /\ \E t \in BagToSet(db.Transaction) :
                    /\ t.upload_batch = data_uploads[q].batch_id
                    /\ t.supplier = [organization |-> key.organization,
                                     name |-> key.name]


\* The runs whose view answered after process() had returned the record.
Answered ==
    {r \in DOMAIN data_uploads :
        pc[r] \in {"HTTP_201_CREATED", "HTTP_400_BAD_REQUEST", "redirect", "render"}}

\* The AuditLog entries of an upload.
UploadEntries(batch_id) ==
    {i \in DOMAIN audit_log : /\ audit_log[i].action = "upload"
                              /\ audit_log[i].resource_id = batch_id}

\* C27: every upload that process() returned a record for, through the API
\* endpoint or the admin view, by a user with a profile, has exactly one
\* AuditLog entry with action 'upload' and the batch_id as resource_id.
C27_OneAuditEntryPerUpload ==
    \A r \in Answered :
        Cardinality(UploadEntries(data_uploads[r].batch_id)) = 1


\* The call of validate_csv_file on its own has been made.
Validated == "validate_csv_file" \in DOMAIN returned

C29_SuccessfulRowsAreTheStoredOnes ==
    /\ [](\A r \in Runs :
            pc[r] \in {"rows", "returned"} =>
              /\ data_uploads[r].batch_id = processor[r].batch_id
              /\ processor[r].stats.successful
                    = BatchTransactions(processor[r].batch_id))
    /\ [](\A r \in Finished :
            data_uploads[r].successful_rows
                = BatchTransactions(data_uploads[r].batch_id))
    /\ [][\A r \in Runs :
            (\/ processor'[r].stats.failed # processor[r].stats.failed
             \/ processor'[r].stats.duplicates # processor[r].stats.duplicates)
                => db'.Transaction = db.Transaction]_vars

\* Two returned runs, one with a stored and a failed row, the other with
\* stored rows of its own.
C29_TwoBatchesStored ==
    \E r, q \in Finished :
        /\ r # q
        /\ data_uploads[r].successful_rows = 1
        /\ data_uploads[r].failed_rows = 1
        /\ data_uploads[q].successful_rows >= 1
        /\ BatchTransactions(data_uploads[q].batch_id) >= 1


\* C30: a stored transaction's supplier and category are rows of the
\* Supplier and Category tables that belong to the transaction's own
\* organization, for rows of the default tenant and for rows that name
\* their tenant alike, also when another tenant has rows of the same names.
C30_DimensionsOfOwnTenant ==
    \A t \in BagToSet(db.Transaction) :
        /\ t.supplier \in db.Supplier
        /\ t.category \in db.Category
        /\ t.supplier.organization = t.organization
        /\ t.category.organization = t.organization

\* One batch stored a default-tenant row and a row that names another
\* tenant, with the same supplier and category names: each tenant has its
\* own Supplier and Category row of that name.
C30_SameNamesTwoTenants ==
    \E r \in Finished :
        \E t, u \in BagToSet(db.Transaction) :
            /\ t.upload_batch = processor[r].batch_id
            /\ u.upload_batch = processor[r].batch_id
            /\ t.organization = processor[r].default_organization
            /\ u.organization # t.organization
            /\ t.supplier.name = u.supplier.name
            /\ t.category.name = u.category.name
            /\ {t.supplier, u.supplier} \subseteq db.Supplier
            /\ {t.category, u.category} \subseteq db.Category

=============================================================================
